---------------------------- MODULE Spec2Model ----------------------------
(***************************************************************************)
(* Model of the listing classification and price-history engine of         *)
(* src/src/ai_marketplace_monitor/market_data.py.                          *)
(*                                                                         *)
(* Strings the code inspects character by character (item names, model     *)
(* identifiers, model tokens, price texts, currencies) are sequences of    *)
(* one-character strings.  Titles and descriptions are only ever matched   *)
(* against the compiled regular expressions, so a listing text is carried   *)
(* as an opaque string together with the outcome of those matches          *)
(* (RegexSignals).  Timestamps are integers counting half seconds: the     *)
(* clock has one-second resolution (_utc_now_iso drops microseconds) and   *)
(* the only arithmetic on them halves a difference of two clock readings.  *)
(* ISO-8601 strings in UTC with a fixed offset compare as their instants   *)
(* do, so the SQL text comparisons on observed_at / sold_estimated_at are  *)
(* integer comparisons here.                                               *)
(***************************************************************************)
EXTENDS Integers, Sequences, FiniteSets, TLC

VARIABLES
    rows,          \* table listing_observations, in rowid order (index = id)
    market_price,  \* table market_price, a set of rows with a unique key
    now,           \* the wall clock, in half seconds
    schema_ready,  \* MarketDataStore._schema_ready of the one store instance
    last,          \* the most recent store call and what it returned
    probe,         \* input and result of a direct _classify_listing call
    instance,      \* how many store instances have been created on the database
    inflight,      \* record_observation calls under way, one per process
    crawl          \* the locals of a running _iter_category_posts call

vars == <<rows, market_price, now, schema_ready, last, probe, instance, inflight, crawl>>

(***************************************************************************)
(* Bounds of the model                                                     *)
(***************************************************************************)

\* Rows the observation table may hold.
MaxRows == 3

\* Seconds the clock may advance.
MaxTicks == 2

\* Keys the market_price table may hold.
MaxSummaries == 1

\* Rows a database written before the classification columns existed may hold.
MaxLegacyRows == 2

\* Store instances that may be created on one database, one after another.
MaxInstances == 2

\* Pages a category site may have.
MaxUrls == 3

\* The greatest max_pages a category is crawled with.
MaxPages == 2

(***************************************************************************)
(* Static registry                                                         *)
(***************************************************************************)

\* The keys of _MODEL_PATTERNS (those of _MODEL_PATTERN_RAW) in source order,
\* which is the order the dict iterates them in.
MODEL_PATTERNS ==
  <<
    <<"r","i","c","o","h","_","g","r","3","x","h","d","f">>, <<"r","i","c","o","h","_","g","r","3","h","d","f">>, <<"r","i","c","o","h","_","g","r","3","x">>,
    <<"r","i","c","o","h","_","g","r","4">>, <<"r","i","c","o","h","_","g","r","3">>, <<"r","i","c","o","h","_","g","r","2">>,
    <<"s","o","n","y","_","a","7","c","2">>, <<"s","o","n","y","_","a","7","c","r">>, <<"s","o","n","y","_","a","1","i","i">>,
    <<"s","o","n","y","_","a","1">>, <<"s","o","n","y","_","a","9","i","i","i">>, <<"s","o","n","y","_","a","9","i","i">>,
    <<"s","o","n","y","_","a","9">>, <<"s","o","n","y","_","a","7","c">>, <<"s","o","n","y","_","a","7","i","i">>,
    <<"s","o","n","y","_","a","7","i","i","i">>, <<"s","o","n","y","_","a","7","i","v">>, <<"s","o","n","y","_","a","7","r">>,
    <<"s","o","n","y","_","a","7","r","i","i">>, <<"s","o","n","y","_","a","7","r","i","i","i">>, <<"s","o","n","y","_","a","7","r","i","v">>,
    <<"s","o","n","y","_","a","7","r","v">>, <<"s","o","n","y","_","a","7","s","i","i">>, <<"s","o","n","y","_","a","7","s","i","i","i">>,
    <<"s","o","n","y","_","a","7","s">>, <<"s","o","n","y","_","a","7">>, <<"s","o","n","y","_","r","x","1","0","0","v","i","i">>,
    <<"s","o","n","y","_","r","x","1","0","0","v","i">>, <<"s","o","n","y","_","r","x","1","0","0","v","a">>, <<"s","o","n","y","_","r","x","1","0","0","v">>,
    <<"s","o","n","y","_","r","x","1","0","0","i","v">>, <<"s","o","n","y","_","r","x","1","0","0","i","i","i">>, <<"s","o","n","y","_","r","x","1","0","0","i","i">>,
    <<"s","o","n","y","_","r","x","1","0","0">>, <<"s","o","n","y","_","r","x","1","0","i","v">>, <<"s","o","n","y","_","r","x","1","0","i","i","i">>,
    <<"s","o","n","y","_","r","x","1","0","i","i">>, <<"s","o","n","y","_","r","x","1","0">>, <<"s","o","n","y","_","r","x","1","r","2">>,
    <<"s","o","n","y","_","r","x","1","r">>, <<"s","o","n","y","_","r","x","1">>, <<"s","o","n","y","_","f","x","3","0">>,
    <<"s","o","n","y","_","f","x","3">>, <<"s","o","n","y","_","f","x","6">>, <<"s","o","n","y","_","f","x","9">>,
    <<"s","o","n","y","_","z","v","e","1">>, <<"s","o","n","y","_","z","v","e","1","0","i","i">>, <<"s","o","n","y","_","z","v","1">>,
    <<"s","o","n","y","_","z","v","1","i","i">>, <<"s","o","n","y","_","z","v","1","f">>, <<"s","o","n","y","_","z","v","e","1","0">>,
    <<"s","o","n","y","_","a","5","0","0","0">>, <<"s","o","n","y","_","a","5","1","0","0">>, <<"s","o","n","y","_","a","6","0","0","0">>,
    <<"s","o","n","y","_","a","6","1","0","0">>, <<"s","o","n","y","_","a","6","3","0","0">>, <<"s","o","n","y","_","a","6","7","0","0">>,
    <<"s","o","n","y","_","a","6","4","0","0">>, <<"s","o","n","y","_","a","6","5","0","0">>, <<"s","o","n","y","_","a","6","6","0","0">>,
    <<"o","l","y","m","p","u","s","_","o","m","1">>, <<"o","l","y","m","p","u","s","_","o","m","2">>
  >>

\* _TARGET_MODEL_ALIASES as a set of <<normalized name, canonical model>> pairs.
TARGET_MODEL_ALIASES ==
  {
    <<<<"g","r","2">>, <<"r","i","c","o","h","_","g","r","2">>>>,
    <<<<"g","r","i","i">>, <<"r","i","c","o","h","_","g","r","2">>>>,
    <<<<"r","i","c","o","h","_","g","r","2">>, <<"r","i","c","o","h","_","g","r","2">>>>,
    <<<<"g","r","3">>, <<"r","i","c","o","h","_","g","r","3">>>>,
    <<<<"g","r","i","i","i">>, <<"r","i","c","o","h","_","g","r","3">>>>,
    <<<<"r","i","c","o","h","_","g","r","3">>, <<"r","i","c","o","h","_","g","r","3">>>>,
    <<<<"g","r","3","x">>, <<"r","i","c","o","h","_","g","r","3","x">>>>,
    <<<<"g","r","i","i","i","x">>, <<"r","i","c","o","h","_","g","r","3","x">>>>,
    <<<<"r","i","c","o","h","_","g","r","3","x">>, <<"r","i","c","o","h","_","g","r","3","x">>>>,
    <<<<"g","r","3","_","h","d","f">>, <<"r","i","c","o","h","_","g","r","3","h","d","f">>>>,
    <<<<"g","r","3","h","d","f">>, <<"r","i","c","o","h","_","g","r","3","h","d","f">>>>,
    <<<<"g","r","i","i","i","_","h","d","f">>, <<"r","i","c","o","h","_","g","r","3","h","d","f">>>>,
    <<<<"g","r","i","i","i","h","d","f">>, <<"r","i","c","o","h","_","g","r","3","h","d","f">>>>,
    <<<<"r","i","c","o","h","_","g","r","3","_","h","d","f">>, <<"r","i","c","o","h","_","g","r","3","h","d","f">>>>,
    <<<<"r","i","c","o","h","_","g","r","3","h","d","f">>, <<"r","i","c","o","h","_","g","r","3","h","d","f">>>>,
    <<<<"g","r","3","x","_","h","d","f">>, <<"r","i","c","o","h","_","g","r","3","x","h","d","f">>>>,
    <<<<"g","r","3","x","h","d","f">>, <<"r","i","c","o","h","_","g","r","3","x","h","d","f">>>>,
    <<<<"g","r","i","i","i","x","_","h","d","f">>, <<"r","i","c","o","h","_","g","r","3","x","h","d","f">>>>,
    <<<<"g","r","i","i","i","x","h","d","f">>, <<"r","i","c","o","h","_","g","r","3","x","h","d","f">>>>,
    <<<<"r","i","c","o","h","_","g","r","3","x","_","h","d","f">>, <<"r","i","c","o","h","_","g","r","3","x","h","d","f">>>>,
    <<<<"r","i","c","o","h","_","g","r","3","x","h","d","f">>, <<"r","i","c","o","h","_","g","r","3","x","h","d","f">>>>,
    <<<<"g","r","4">>, <<"r","i","c","o","h","_","g","r","4">>>>,
    <<<<"g","r","i","v">>, <<"r","i","c","o","h","_","g","r","4">>>>,
    <<<<"r","i","c","o","h","_","g","r","4">>, <<"r","i","c","o","h","_","g","r","4">>>>,
    <<<<"a","1">>, <<"s","o","n","y","_","a","1">>>>,
    <<<<"s","o","n","y","_","a","1">>, <<"s","o","n","y","_","a","1">>>>,
    <<<<"a","1","i","i">>, <<"s","o","n","y","_","a","1","i","i">>>>,
    <<<<"s","o","n","y","_","a","1","i","i">>, <<"s","o","n","y","_","a","1","i","i">>>>,
    <<<<"a","9">>, <<"s","o","n","y","_","a","9">>>>,
    <<<<"s","o","n","y","_","a","9">>, <<"s","o","n","y","_","a","9">>>>,
    <<<<"a","9","i","i">>, <<"s","o","n","y","_","a","9","i","i">>>>,
    <<<<"s","o","n","y","_","a","9","i","i">>, <<"s","o","n","y","_","a","9","i","i">>>>,
    <<<<"a","9","i","i","i">>, <<"s","o","n","y","_","a","9","i","i","i">>>>,
    <<<<"s","o","n","y","_","a","9","i","i","i">>, <<"s","o","n","y","_","a","9","i","i","i">>>>,
    <<<<"a","7","c","2">>, <<"s","o","n","y","_","a","7","c","2">>>>,
    <<<<"a","7","c","i","i">>, <<"s","o","n","y","_","a","7","c","2">>>>,
    <<<<"s","o","n","y","_","a","7","c","2">>, <<"s","o","n","y","_","a","7","c","2">>>>,
    <<<<"s","o","n","y","_","a","7","c","i","i">>, <<"s","o","n","y","_","a","7","c","2">>>>,
    <<<<"s","o","n","y","_","a","l","p","h","a","_","7","c","_","i","i">>, <<"s","o","n","y","_","a","7","c","2">>>>,
    <<<<"s","o","n","y","_","a","l","p","h","a","_","7","c","2">>, <<"s","o","n","y","_","a","7","c","2">>>>,
    <<<<"a","7","c">>, <<"s","o","n","y","_","a","7","c">>>>,
    <<<<"s","o","n","y","_","a","7","c">>, <<"s","o","n","y","_","a","7","c">>>>,
    <<<<"a","7">>, <<"s","o","n","y","_","a","7">>>>,
    <<<<"s","o","n","y","_","a","7">>, <<"s","o","n","y","_","a","7">>>>,
    <<<<"a","7","r">>, <<"s","o","n","y","_","a","7","r">>>>,
    <<<<"s","o","n","y","_","a","7","r">>, <<"s","o","n","y","_","a","7","r">>>>,
    <<<<"a","5","0","0","0">>, <<"s","o","n","y","_","a","5","0","0","0">>>>,
    <<<<"s","o","n","y","_","a","5","0","0","0">>, <<"s","o","n","y","_","a","5","0","0","0">>>>,
    <<<<"a","5","1","0","0">>, <<"s","o","n","y","_","a","5","1","0","0">>>>,
    <<<<"s","o","n","y","_","a","5","1","0","0">>, <<"s","o","n","y","_","a","5","1","0","0">>>>,
    <<<<"a","6","0","0","0">>, <<"s","o","n","y","_","a","6","0","0","0">>>>,
    <<<<"s","o","n","y","_","a","6","0","0","0">>, <<"s","o","n","y","_","a","6","0","0","0">>>>,
    <<<<"a","6","1","0","0">>, <<"s","o","n","y","_","a","6","1","0","0">>>>,
    <<<<"s","o","n","y","_","a","6","1","0","0">>, <<"s","o","n","y","_","a","6","1","0","0">>>>,
    <<<<"a","6","3","0","0">>, <<"s","o","n","y","_","a","6","3","0","0">>>>,
    <<<<"s","o","n","y","_","a","6","3","0","0">>, <<"s","o","n","y","_","a","6","3","0","0">>>>,
    <<<<"a","6","4","0","0">>, <<"s","o","n","y","_","a","6","4","0","0">>>>,
    <<<<"s","o","n","y","_","a","6","4","0","0">>, <<"s","o","n","y","_","a","6","4","0","0">>>>,
    <<<<"a","6","5","0","0">>, <<"s","o","n","y","_","a","6","5","0","0">>>>,
    <<<<"s","o","n","y","_","a","6","5","0","0">>, <<"s","o","n","y","_","a","6","5","0","0">>>>,
    <<<<"a","6","6","0","0">>, <<"s","o","n","y","_","a","6","6","0","0">>>>,
    <<<<"s","o","n","y","_","a","6","6","0","0">>, <<"s","o","n","y","_","a","6","6","0","0">>>>,
    <<<<"a","6","7","0","0">>, <<"s","o","n","y","_","a","6","7","0","0">>>>,
    <<<<"s","o","n","y","_","a","6","7","0","0">>, <<"s","o","n","y","_","a","6","7","0","0">>>>,
    <<<<"f","x","3">>, <<"s","o","n","y","_","f","x","3">>>>,
    <<<<"s","o","n","y","_","f","x","3">>, <<"s","o","n","y","_","f","x","3">>>>,
    <<<<"f","x","3","0">>, <<"s","o","n","y","_","f","x","3","0">>>>,
    <<<<"s","o","n","y","_","f","x","3","0">>, <<"s","o","n","y","_","f","x","3","0">>>>,
    <<<<"f","x","6">>, <<"s","o","n","y","_","f","x","6">>>>,
    <<<<"s","o","n","y","_","f","x","6">>, <<"s","o","n","y","_","f","x","6">>>>,
    <<<<"f","x","9">>, <<"s","o","n","y","_","f","x","9">>>>,
    <<<<"s","o","n","y","_","f","x","9">>, <<"s","o","n","y","_","f","x","9">>>>,
    <<<<"r","x","1","0","0">>, <<"s","o","n","y","_","r","x","1","0","0">>>>,
    <<<<"s","o","n","y","_","r","x","1","0","0">>, <<"s","o","n","y","_","r","x","1","0","0">>>>,
    <<<<"r","x","1","0","0","i","i">>, <<"s","o","n","y","_","r","x","1","0","0","i","i">>>>,
    <<<<"s","o","n","y","_","r","x","1","0","0","i","i">>, <<"s","o","n","y","_","r","x","1","0","0","i","i">>>>,
    <<<<"r","x","1","0","0","i","i","i">>, <<"s","o","n","y","_","r","x","1","0","0","i","i","i">>>>,
    <<<<"s","o","n","y","_","r","x","1","0","0","i","i","i">>, <<"s","o","n","y","_","r","x","1","0","0","i","i","i">>>>,
    <<<<"r","x","1","0","0","i","v">>, <<"s","o","n","y","_","r","x","1","0","0","i","v">>>>,
    <<<<"s","o","n","y","_","r","x","1","0","0","i","v">>, <<"s","o","n","y","_","r","x","1","0","0","i","v">>>>,
    <<<<"r","x","1","0","0","v">>, <<"s","o","n","y","_","r","x","1","0","0","v">>>>,
    <<<<"s","o","n","y","_","r","x","1","0","0","v">>, <<"s","o","n","y","_","r","x","1","0","0","v">>>>,
    <<<<"r","x","1","0","0","v","a">>, <<"s","o","n","y","_","r","x","1","0","0","v","a">>>>,
    <<<<"s","o","n","y","_","r","x","1","0","0","v","a">>, <<"s","o","n","y","_","r","x","1","0","0","v","a">>>>,
    <<<<"r","x","1","0","0","v","i">>, <<"s","o","n","y","_","r","x","1","0","0","v","i">>>>,
    <<<<"s","o","n","y","_","r","x","1","0","0","v","i">>, <<"s","o","n","y","_","r","x","1","0","0","v","i">>>>,
    <<<<"r","x","1","0","0","v","i","i">>, <<"s","o","n","y","_","r","x","1","0","0","v","i","i">>>>,
    <<<<"s","o","n","y","_","r","x","1","0","0","v","i","i">>, <<"s","o","n","y","_","r","x","1","0","0","v","i","i">>>>,
    <<<<"r","x","1","0">>, <<"s","o","n","y","_","r","x","1","0">>>>,
    <<<<"s","o","n","y","_","r","x","1","0">>, <<"s","o","n","y","_","r","x","1","0">>>>,
    <<<<"r","x","1","0","i","i">>, <<"s","o","n","y","_","r","x","1","0","i","i">>>>,
    <<<<"s","o","n","y","_","r","x","1","0","i","i">>, <<"s","o","n","y","_","r","x","1","0","i","i">>>>,
    <<<<"r","x","1","0","i","i","i">>, <<"s","o","n","y","_","r","x","1","0","i","i","i">>>>,
    <<<<"s","o","n","y","_","r","x","1","0","i","i","i">>, <<"s","o","n","y","_","r","x","1","0","i","i","i">>>>,
    <<<<"r","x","1","0","i","v">>, <<"s","o","n","y","_","r","x","1","0","i","v">>>>,
    <<<<"s","o","n","y","_","r","x","1","0","i","v">>, <<"s","o","n","y","_","r","x","1","0","i","v">>>>,
    <<<<"r","x","1">>, <<"s","o","n","y","_","r","x","1">>>>,
    <<<<"s","o","n","y","_","r","x","1">>, <<"s","o","n","y","_","r","x","1">>>>,
    <<<<"s","o","n","y","_","a","7","s","i","i">>, <<"s","o","n","y","_","a","7","s","i","i">>>>,
    <<<<"s","o","n","y","_","a","7","r","i","i","i">>, <<"s","o","n","y","_","a","7","r","i","i","i">>>>,
    <<<<"s","o","n","y","_","a","7","r","i","i">>, <<"s","o","n","y","_","a","7","r","i","i">>>>,
    <<<<"s","o","n","y","_","a","7","r","2">>, <<"s","o","n","y","_","a","7","r","i","i">>>>,
    <<<<"s","o","n","y","_","a","7","r","3">>, <<"s","o","n","y","_","a","7","r","i","i","i">>>>,
    <<<<"s","o","n","y","_","a","7","r","5">>, <<"s","o","n","y","_","a","7","r">>>>,
    <<<<"s","o","n","y","_","a","7","r","6">>, <<"s","o","n","y","_","a","7","r">>>>,
    <<<<"s","o","n","y","_","r","x","1","r">>, <<"s","o","n","y","_","r","x","1","r">>>>,
    <<<<"s","o","n","y","_","r","x","1","r","2">>, <<"s","o","n","y","_","r","x","1","r","2">>>>,
    <<<<"z","v","e","1">>, <<"s","o","n","y","_","z","v","e","1">>>>,
    <<<<"s","o","n","y","_","z","v","e","1">>, <<"s","o","n","y","_","z","v","e","1">>>>,
    <<<<"z","v","e","1","0","i","i">>, <<"s","o","n","y","_","z","v","e","1","0","i","i">>>>,
    <<<<"s","o","n","y","_","z","v","e","1","0","i","i">>, <<"s","o","n","y","_","z","v","e","1","0","i","i">>>>,
    <<<<"z","v","1","i","i">>, <<"s","o","n","y","_","z","v","1","i","i">>>>,
    <<<<"s","o","n","y","_","z","v","1","i","i">>, <<"s","o","n","y","_","z","v","1","i","i">>>>,
    <<<<"z","v","1","f">>, <<"s","o","n","y","_","z","v","1","f">>>>,
    <<<<"s","o","n","y","_","z","v","1","f">>, <<"s","o","n","y","_","z","v","1","f">>>>,
    <<<<"s","o","n","y","_","z","v","1">>, <<"s","o","n","y","_","z","v","1">>>>,
    <<<<"s","o","n","y","_","z","v","e","1","0">>, <<"s","o","n","y","_","z","v","e","1","0">>>>,
    <<<<"o","l","y","m","p","u","s","_","f","i","l","m">>, <<"o","l","y","m","p","u","s","_","f","i","l","m">>>>,
    <<<<"o","l","y","m","p","u","s">>, <<"o","l","y","m","p","u","s","_","u","n","k","n","o","w","n">>>>
  }

\* _GENERIC_SONY_ALIAS as a set of <<normalized token, canonical model>> pairs.
GENERIC_SONY_ALIAS ==
  {
    <<<<"a","1">>, <<"s","o","n","y","_","a","1">>>>,
    <<<<"a","1","i","i">>, <<"s","o","n","y","_","a","1","i","i">>>>,
    <<<<"a","1","2">>, <<"s","o","n","y","_","a","1","i","i">>>>,
    <<<<"a","1","m","2">>, <<"s","o","n","y","_","a","1","i","i">>>>,
    <<<<"a","9">>, <<"s","o","n","y","_","a","9">>>>,
    <<<<"a","9","i","i">>, <<"s","o","n","y","_","a","9","i","i">>>>,
    <<<<"a","9","2">>, <<"s","o","n","y","_","a","9","i","i">>>>,
    <<<<"a","9","i","i","i">>, <<"s","o","n","y","_","a","9","i","i","i">>>>,
    <<<<"a","9","3">>, <<"s","o","n","y","_","a","9","i","i","i">>>>,
    <<<<"a","7","s","i","i">>, <<"s","o","n","y","_","a","7","s","i","i">>>>,
    <<<<"a","7","s","2">>, <<"s","o","n","y","_","a","7","s","i","i">>>>,
    <<<<"a","7","s","i","i","i">>, <<"s","o","n","y","_","a","7","s","i","i","i">>>>,
    <<<<"a","7","s","3">>, <<"s","o","n","y","_","a","7","s","i","i","i">>>>,
    <<<<"a","7">>, <<"s","o","n","y","_","a","7">>>>,
    <<<<"a","7","r">>, <<"s","o","n","y","_","a","7","r">>>>,
    <<<<"a","7","r","i","i","i">>, <<"s","o","n","y","_","a","7","r","i","i","i">>>>,
    <<<<"a","7","r","3">>, <<"s","o","n","y","_","a","7","r","i","i","i">>>>,
    <<<<"a","7","r","i","i">>, <<"s","o","n","y","_","a","7","r","i","i">>>>,
    <<<<"a","7","r","2">>, <<"s","o","n","y","_","a","7","r","i","i">>>>,
    <<<<"a","7","r","i","v">>, <<"s","o","n","y","_","a","7","r","i","v">>>>,
    <<<<"a","7","r","4">>, <<"s","o","n","y","_","a","7","r","i","v">>>>,
    <<<<"a","7","r","v">>, <<"s","o","n","y","_","a","7","r","v">>>>,
    <<<<"a","7","r","5">>, <<"s","o","n","y","_","a","7","r">>>>,
    <<<<"a","7","r","6">>, <<"s","o","n","y","_","a","7","r">>>>,
    <<<<"a","7","i","v">>, <<"s","o","n","y","_","a","7","i","v">>>>,
    <<<<"a","7","4">>, <<"s","o","n","y","_","a","7","i","v">>>>,
    <<<<"a","7","i","i","i">>, <<"s","o","n","y","_","a","7","i","i","i">>>>,
    <<<<"a","7","3">>, <<"s","o","n","y","_","a","7","i","i","i">>>>,
    <<<<"a","7","i","i">>, <<"s","o","n","y","_","a","7","i","i">>>>,
    <<<<"a","7","2">>, <<"s","o","n","y","_","a","7","i","i">>>>,
    <<<<"a","7","c">>, <<"s","o","n","y","_","a","7","c">>>>,
    <<<<"a","7","c","2">>, <<"s","o","n","y","_","a","7","c","2">>>>,
    <<<<"a","7","c","i","i">>, <<"s","o","n","y","_","a","7","c","2">>>>,
    <<<<"a","7","c","r">>, <<"s","o","n","y","_","a","7","c","r">>>>,
    <<<<"a","5","0","0","0">>, <<"s","o","n","y","_","a","5","0","0","0">>>>,
    <<<<"a","5","1","0","0">>, <<"s","o","n","y","_","a","5","1","0","0">>>>,
    <<<<"a","6","0","0","0">>, <<"s","o","n","y","_","a","6","0","0","0">>>>,
    <<<<"a","6","1","0","0">>, <<"s","o","n","y","_","a","6","1","0","0">>>>,
    <<<<"a","6","3","0","0">>, <<"s","o","n","y","_","a","6","3","0","0">>>>,
    <<<<"a","6","4","0","0">>, <<"s","o","n","y","_","a","6","4","0","0">>>>,
    <<<<"a","6","5","0","0">>, <<"s","o","n","y","_","a","6","5","0","0">>>>,
    <<<<"a","6","6","0","0">>, <<"s","o","n","y","_","a","6","6","0","0">>>>,
    <<<<"a","6","7","0","0">>, <<"s","o","n","y","_","a","6","7","0","0">>>>,
    <<<<"z","v","e","1">>, <<"s","o","n","y","_","z","v","e","1">>>>,
    <<<<"z","v","e","1","0">>, <<"s","o","n","y","_","z","v","e","1","0">>>>,
    <<<<"z","v","e","1","0","i","i">>, <<"s","o","n","y","_","z","v","e","1","0","i","i">>>>,
    <<<<"z","v","1">>, <<"s","o","n","y","_","z","v","1">>>>,
    <<<<"z","v","1","i","i">>, <<"s","o","n","y","_","z","v","1","i","i">>>>,
    <<<<"z","v","1","f">>, <<"s","o","n","y","_","z","v","1","f">>>>,
    <<<<"f","x","3">>, <<"s","o","n","y","_","f","x","3">>>>,
    <<<<"f","x","3","0">>, <<"s","o","n","y","_","f","x","3","0">>>>,
    <<<<"f","x","6">>, <<"s","o","n","y","_","f","x","6">>>>,
    <<<<"f","x","9">>, <<"s","o","n","y","_","f","x","9">>>>
  }

\* _GENERIC_RX_ALIAS as a set of <<normalized token, canonical model>> pairs.
GENERIC_RX_ALIAS ==
  {
    <<<<"r","x","1">>, <<"s","o","n","y","_","r","x","1">>>>,
    <<<<"r","x","1","r">>, <<"s","o","n","y","_","r","x","1","r">>>>,
    <<<<"r","x","1","r","i","i">>, <<"s","o","n","y","_","r","x","1","r","2">>>>,
    <<<<"r","x","1","r","2">>, <<"s","o","n","y","_","r","x","1","r","2">>>>,
    <<<<"r","x","1","r","m","2">>, <<"s","o","n","y","_","r","x","1","r","2">>>>,
    <<<<"r","x","1","0","0">>, <<"s","o","n","y","_","r","x","1","0","0">>>>,
    <<<<"r","x","1","0","0","i","i">>, <<"s","o","n","y","_","r","x","1","0","0","i","i">>>>,
    <<<<"r","x","1","0","0","2">>, <<"s","o","n","y","_","r","x","1","0","0","i","i">>>>,
    <<<<"r","x","1","0","0","m","2">>, <<"s","o","n","y","_","r","x","1","0","0","i","i">>>>,
    <<<<"r","x","1","0","0","i","i","i">>, <<"s","o","n","y","_","r","x","1","0","0","i","i","i">>>>,
    <<<<"r","x","1","0","0","3">>, <<"s","o","n","y","_","r","x","1","0","0","i","i","i">>>>,
    <<<<"r","x","1","0","0","m","3">>, <<"s","o","n","y","_","r","x","1","0","0","i","i","i">>>>,
    <<<<"r","x","1","0","0","i","v">>, <<"s","o","n","y","_","r","x","1","0","0","i","v">>>>,
    <<<<"r","x","1","0","0","4">>, <<"s","o","n","y","_","r","x","1","0","0","i","v">>>>,
    <<<<"r","x","1","0","0","m","4">>, <<"s","o","n","y","_","r","x","1","0","0","i","v">>>>,
    <<<<"r","x","1","0","0","v">>, <<"s","o","n","y","_","r","x","1","0","0","v">>>>,
    <<<<"r","x","1","0","0","5">>, <<"s","o","n","y","_","r","x","1","0","0","v">>>>,
    <<<<"r","x","1","0","0","m","5">>, <<"s","o","n","y","_","r","x","1","0","0","v">>>>,
    <<<<"r","x","1","0","0","v","a">>, <<"s","o","n","y","_","r","x","1","0","0","v","a">>>>,
    <<<<"r","x","1","0","0","m","5","a">>, <<"s","o","n","y","_","r","x","1","0","0","v","a">>>>,
    <<<<"r","x","1","0","0","v","i">>, <<"s","o","n","y","_","r","x","1","0","0","v","i">>>>,
    <<<<"r","x","1","0","0","6">>, <<"s","o","n","y","_","r","x","1","0","0","v","i">>>>,
    <<<<"r","x","1","0","0","m","6">>, <<"s","o","n","y","_","r","x","1","0","0","v","i">>>>,
    <<<<"r","x","1","0","0","v","i","i">>, <<"s","o","n","y","_","r","x","1","0","0","v","i","i">>>>,
    <<<<"r","x","1","0","0","7">>, <<"s","o","n","y","_","r","x","1","0","0","v","i","i">>>>,
    <<<<"r","x","1","0","0","m","7">>, <<"s","o","n","y","_","r","x","1","0","0","v","i","i">>>>,
    <<<<"r","x","1","0">>, <<"s","o","n","y","_","r","x","1","0">>>>,
    <<<<"r","x","1","0","i","i">>, <<"s","o","n","y","_","r","x","1","0","i","i">>>>,
    <<<<"r","x","1","0","2">>, <<"s","o","n","y","_","r","x","1","0","i","i">>>>,
    <<<<"r","x","1","0","m","2">>, <<"s","o","n","y","_","r","x","1","0","i","i">>>>,
    <<<<"r","x","1","0","i","i","i">>, <<"s","o","n","y","_","r","x","1","0","i","i","i">>>>,
    <<<<"r","x","1","0","3">>, <<"s","o","n","y","_","r","x","1","0","i","i","i">>>>,
    <<<<"r","x","1","0","m","3">>, <<"s","o","n","y","_","r","x","1","0","i","i","i">>>>,
    <<<<"r","x","1","0","i","v">>, <<"s","o","n","y","_","r","x","1","0","i","v">>>>,
    <<<<"r","x","1","0","4">>, <<"s","o","n","y","_","r","x","1","0","i","v">>>>,
    <<<<"r","x","1","0","m","4">>, <<"s","o","n","y","_","r","x","1","0","i","v">>>>
  }

\* _GENERIC_MODEL_OVERRIDES in source order: <<generic model, its specific descendants>>.
GENERIC_MODEL_OVERRIDES ==
  <<
    <<<<"s","o","n","y","_","a","1">>,
      {<<"s","o","n","y","_","a","1","i","i">>}>>,
    <<<<"s","o","n","y","_","a","9">>,
      {<<"s","o","n","y","_","a","9","i","i">>,
       <<"s","o","n","y","_","a","9","i","i","i">>}>>,
    <<<<"s","o","n","y","_","a","7">>,
      {<<"s","o","n","y","_","a","7","c">>,
       <<"s","o","n","y","_","a","7","c","2">>,
       <<"s","o","n","y","_","a","7","c","r">>,
       <<"s","o","n","y","_","a","7","i","i">>,
       <<"s","o","n","y","_","a","7","i","i","i">>,
       <<"s","o","n","y","_","a","7","i","v">>,
       <<"s","o","n","y","_","a","7","r">>,
       <<"s","o","n","y","_","a","7","r","i","i">>,
       <<"s","o","n","y","_","a","7","r","i","i","i">>,
       <<"s","o","n","y","_","a","7","r","i","v">>,
       <<"s","o","n","y","_","a","7","r","v">>,
       <<"s","o","n","y","_","a","7","s">>,
       <<"s","o","n","y","_","a","7","s","i","i">>,
       <<"s","o","n","y","_","a","7","s","i","i","i">>}>>,
    <<<<"s","o","n","y","_","a","7","c">>,
      {<<"s","o","n","y","_","a","7","c","2">>,
       <<"s","o","n","y","_","a","7","c","r">>}>>,
    <<<<"s","o","n","y","_","a","7","r">>,
      {<<"s","o","n","y","_","a","7","r","i","i">>,
       <<"s","o","n","y","_","a","7","r","i","i","i">>,
       <<"s","o","n","y","_","a","7","r","i","v">>,
       <<"s","o","n","y","_","a","7","r","v">>}>>,
    <<<<"s","o","n","y","_","a","7","s">>,
      {<<"s","o","n","y","_","a","7","s","i","i">>,
       <<"s","o","n","y","_","a","7","s","i","i","i">>}>>,
    <<<<"s","o","n","y","_","r","x","1">>,
      {<<"s","o","n","y","_","r","x","1","r">>,
       <<"s","o","n","y","_","r","x","1","r","2">>}>>,
    <<<<"s","o","n","y","_","r","x","1","0","0">>,
      {<<"s","o","n","y","_","r","x","1","0","0","i","i">>,
       <<"s","o","n","y","_","r","x","1","0","0","i","i","i">>,
       <<"s","o","n","y","_","r","x","1","0","0","i","v">>,
       <<"s","o","n","y","_","r","x","1","0","0","v">>,
       <<"s","o","n","y","_","r","x","1","0","0","v","a">>,
       <<"s","o","n","y","_","r","x","1","0","0","v","i">>,
       <<"s","o","n","y","_","r","x","1","0","0","v","i","i">>}>>,
    <<<<"s","o","n","y","_","r","x","1","0">>,
      {<<"s","o","n","y","_","r","x","1","0","i","i">>,
       <<"s","o","n","y","_","r","x","1","0","i","i","i">>,
       <<"s","o","n","y","_","r","x","1","0","i","v">>}>>,
    <<<<"s","o","n","y","_","z","v","1">>,
      {<<"s","o","n","y","_","z","v","1","f">>,
       <<"s","o","n","y","_","z","v","1","i","i">>}>>,
    <<<<"s","o","n","y","_","z","v","e","1","0">>,
      {<<"s","o","n","y","_","z","v","e","1","0","i","i">>}>>
  >>

(***************************************************************************)
(* Strings as character sequences                                          *)
(***************************************************************************)

\* Python None and SQL NULL, for values that are character sequences.
None == <<>>

\* The literal 'unknown' of detected_model.
UNKNOWN == <<"u","n","k","n","o","w","n">>

UpperChars == <<"A","B","C","D","E","F","G","H","I","J","K","L","M",
                "N","O","P","Q","R","S","T","U","V","W","X","Y","Z">>

LowerChars == <<"a","b","c","d","e","f","g","h","i","j","k","l","m",
                "n","o","p","q","r","s","t","u","v","w","x","y","z">>

Digits == {"0","1","2","3","4","5","6","7","8","9"}

\* The character class [a-z0-9].
LowerAlnum == {LowerChars[i] : i \in 1..26} \cup Digits

\* The character class \s and the class [\s\-].
Whitespace == {" "}

WhitespaceOrHyphen == Whitespace \cup {"-"}

lower_char(c) ==
    IF \E i \in 1..26 : UpperChars[i] = c
    THEN LowerChars[CHOOSE i \in 1..26 : UpperChars[i] = c]
    ELSE c

\* str.lower()
lower(s) == [i \in 1..Len(s) |-> lower_char(s[i])]

\* Python's `sub in s` on strings.
contains(sub, s) ==
    \E i \in 0..(Len(s) - Len(sub)) : SubSeq(s, i + 1, i + Len(sub)) = sub

\* `x in seq` on a list.
in_list(x, seq) == \E i \in 1..Len(seq) : seq[i] = x

\* s.strip(ch)
strip_char(s, ch) ==
    LET keep == {i \in 1..Len(s) : s[i] # ch}
    IN  IF keep = {} THEN <<>>
        ELSE SubSeq(s, CHOOSE i \in keep : \A j \in keep : i <= j,
                       CHOOSE i \in keep : \A j \in keep : j <= i)

\* re.sub(r"[^a-z0-9]+", "_", s): every maximal run of characters outside
\* [a-z0-9] becomes one underscore.
sub_non_alnum_runs(s) ==
    LET F[i \in 0..Len(s)] ==
            IF i = 0 THEN <<>>
            ELSE IF s[i] \in LowerAlnum THEN Append(F[i - 1], s[i])
            ELSE IF i > 1 /\ s[i - 1] \notin LowerAlnum THEN F[i - 1]
            ELSE Append(F[i - 1], "_")
    IN  F[Len(s)]

\* re.sub(r"[\s\-]+", "", s)
remove_space_hyphen(s) == SelectSeq(s, LAMBDA c : c \notin WhitespaceOrHyphen)

normalize_item_name(item_name) ==
    strip_char(sub_non_alnum_runs(lower(item_name)), "_")

normalize_sony_token(token) ==
    LET n0 == remove_space_hyphen(lower(token))
        \* ^a7m([2-6])$ -> a7\1
        n1 == IF Len(n0) = 4 /\ SubSeq(n0, 1, 3) = <<"a","7","m">>
                 /\ n0[4] \in {"2","3","4","5","6"}
              THEN <<"a","7",n0[4]>> ELSE n0
        \* ^a7([crs])m([2-6])$ -> a7\1\2
        n2 == IF Len(n1) = 5 /\ SubSeq(n1, 1, 2) = <<"a","7">>
                 /\ n1[3] \in {"c","r","s"} /\ n1[4] = "m"
                 /\ n1[5] \in {"2","3","4","5","6"}
              THEN <<"a","7",n1[3],n1[5]>> ELSE n1
        \* ^a9m([23])$ -> a9\1
        n3 == IF Len(n2) = 4 /\ SubSeq(n2, 1, 3) = <<"a","9","m">>
                 /\ n2[4] \in {"2","3"}
              THEN <<"a","9",n2[4]>> ELSE n2
    IN  IF n3 = <<"a","1","m","2">> THEN <<"a","1","i","i">> ELSE n3

\* str.replace("mark", ""): non-overlapping occurrences, left to right.
RECURSIVE remove_mark(_)
remove_mark(s) ==
    IF Len(s) < 4 THEN s
    ELSE IF SubSeq(s, 1, 4) = <<"m","a","r","k">>
         THEN remove_mark(SubSeq(s, 5, Len(s)))
         ELSE <<s[1]>> \o remove_mark(SubSeq(s, 2, Len(s)))

normalize_rx_token(token) == remove_mark(remove_space_hyphen(lower(token)))

\* dict.get(key): the value stored under key, or None.
dict_get(table, key) ==
    IF \E p \in table : p[1] = key
    THEN (CHOOSE p \in table : p[1] = key)[2]
    ELSE None

\* _SONY_FOUR_DIGIT_ALPHA.fullmatch(token): r"a(\d{4})"
four_digit_alpha(token) ==
    /\ Len(token) = 5
    /\ token[1] = "a"
    /\ \A i \in 2..5 : token[i] \in Digits

(***************************************************************************)
(* Text classifier                                                         *)
(*                                                                         *)
(* A signal record is what the regular expressions report on the           *)
(* lower-cased combined text:                                              *)
(*   curated        models with a _MODEL_PATTERNS pattern that matches     *)
(*   sony           "sony" in text                                         *)
(*   sony_tokens    _SONY_MODEL_TOKEN.findall(text)                        *)
(*   rx_tokens      _SONY_RX_MODEL_TOKEN.findall(text)                     *)
(*   accessory, compatibility, lens, camera                                *)
(*                  _contains_any of the four keyword pattern groups       *)
(***************************************************************************)

\* Lines 600-602: the curated loop visits the registry in its order.
curated_matches(sig) == SelectSeq(MODEL_PATTERNS, LAMBDA m : m \in sig.curated)

\* Lines 606-612: the model a Sony Alpha token falls back to, or None.
sony_fallback_model(token) ==
    LET normalized_token == normalize_sony_token(token)
        fallback_model == dict_get(GENERIC_SONY_ALIAS, normalized_token)
    IN  IF fallback_model # None THEN fallback_model
        ELSE IF four_digit_alpha(normalized_token)
             THEN <<"s","o","n","y","_","a">> \o SubSeq(normalized_token, 2, 5)
             ELSE None

\* Lines 617-618
rx_fallback_model(token) == dict_get(GENERIC_RX_ALIAS, normalize_rx_token(token))

\* `if fallback_model and fallback_model not in matched: matched.append(...)`
append_if_new(matched, fallback_model) ==
    IF fallback_model # None /\ ~in_list(fallback_model, matched)
    THEN Append(matched, fallback_model)
    ELSE matched

\* A faulty variant of drop_overridden_generics: the loop ends (break) after
\* the first generic model it removes.
drop_first_overridden_generic(matched_set) ==
    LET hit == {i \in 1..Len(GENERIC_MODEL_OVERRIDES) :
                   /\ GENERIC_MODEL_OVERRIDES[i][1] \in matched_set
                   /\ matched_set \cap GENERIC_MODEL_OVERRIDES[i][2] # {}}
    IN  IF hit = {} THEN matched_set
        ELSE matched_set \ {GENERIC_MODEL_OVERRIDES[CHOOSE i \in hit : \A j \in hit : i <= j][1]}

\* Lines 622-625: the loop over _GENERIC_MODEL_OVERRIDES, mutating matched_set.
drop_overridden_generics(matched_set) ==
    LET F[i \in 0..Len(GENERIC_MODEL_OVERRIDES)] ==
            IF i = 0 THEN matched_set
            ELSE LET generic_model == GENERIC_MODEL_OVERRIDES[i][1]
                     specific_models == GENERIC_MODEL_OVERRIDES[i][2]
                 IN  IF generic_model \in F[i - 1]
                        /\ F[i - 1] \cap specific_models # {}
                     THEN F[i - 1] \ {generic_model}
                     ELSE F[i - 1]
    IN  F[Len(GENERIC_MODEL_OVERRIDES)]

\* Lines 604-612 and 614-620: one findall loop, appending to matched the
\* fallback model of every token that has one (fallback_models holds None for
\* the others) and is not in the list yet.
append_fallbacks(matched, fallback_models) ==
    LET F[i \in 0..Len(fallback_models)] ==
            IF i = 0 THEN matched
            ELSE append_if_new(F[i - 1], fallback_models[i])
    IN  F[Len(fallback_models)]

\* Line 603: the Sony Alpha fallback runs only when "sony" is in the text.
sony_fallbacks(sig, matched) ==
    IF sig.sony
    THEN append_fallbacks(matched,
             [i \in 1..Len(sig.sony_tokens) |-> sony_fallback_model(sig.sony_tokens[i])])
    ELSE matched

\* Lines 621-627: matched_set = set(matched), the overrides, and the list
\* comprehension that keeps the order of matched.
without_overridden_generics(matched) ==
    SelectSeq(matched,
              LAMBDA model :
                  model \in drop_overridden_generics({matched[i] : i \in 1..Len(matched)}))

extract_models(sig) ==
    without_overridden_generics(
        append_fallbacks(sony_fallbacks(sig, curated_matches(sig)),
            [i \in 1..Len(sig.rx_tokens) |-> rx_fallback_model(sig.rx_tokens[i])]))

target_model_from_item_name(item_name) ==
    LET normalized == normalize_item_name(item_name)
        alias == dict_get(TARGET_MODEL_ALIASES, normalized)
        found == {i \in 1..Len(MODEL_PATTERNS) : contains(MODEL_PATTERNS[i], normalized)}
    IN  IF alias # None THEN alias
        ELSE IF found # {}
             THEN MODEL_PATTERNS[CHOOSE i \in found : \A j \in found : i <= j]
             ELSE None

\* A faulty variant of canonical_item_name: the searched name is normalised
\* whatever model was detected.
canonical_item_name_slug_only(item_name, detected_model) == normalize_item_name(item_name)

canonical_item_name(item_name, detected_model) ==
    IF detected_model # None /\ detected_model # UNKNOWN
    THEN detected_model
    ELSE normalize_item_name(item_name)

\* A faulty variant of _detect_listing_type: the camera-body test comes first.
detect_listing_type_body_first(sig, matched_models) ==
    IF Len(matched_models) > 0 \/ sig.camera THEN "camera_body"
    ELSE IF sig.accessory THEN "accessory"
    ELSE IF sig.lens THEN "lens"
    ELSE "other"

detect_listing_type(sig, matched_models) ==
    IF sig.accessory THEN "accessory"
    ELSE IF Len(matched_models) > 0 /\ sig.compatibility /\ ~sig.camera THEN "accessory"
    ELSE IF sig.lens /\ ~sig.camera THEN "lens"
    ELSE IF Len(matched_models) > 0 \/ sig.camera THEN "camera_body"
    ELSE "other"

\* classification_reason IS NULL
NullReason == [kind |-> "NULL", listing_type |-> "", target |-> None, models |-> <<>>]

\* The four reason texts of _classify_listing, by the values they interpolate.
Reason(kind, listing_type, target, models) ==
    [kind |-> kind, listing_type |-> listing_type, target |-> target, models |-> models]

\* A faulty variant of classification_of: is_target_exact does not ask that
\* no other model matched.
classification_of_target_among_others(target_model, matched_models, listing_type) ==
    LET target_matched == target_model # None /\ in_list(target_model, matched_models)
        detected_model ==
            IF target_matched THEN target_model
            ELSE IF Len(matched_models) > 0 THEN matched_models[1]
            ELSE UNKNOWN
        is_target_exact ==
            IF /\ target_matched
               /\ listing_type = "camera_body"
            THEN 1 ELSE 0
    IN  IF is_target_exact = 1 THEN
            [detected_model |-> detected_model, listing_type |-> listing_type,
             is_target_exact |-> 1, confidence |-> 98,
             reason |-> Reason("exact_target", "", target_model, <<>>)]
        ELSE IF target_matched /\ listing_type # "camera_body" THEN
            [detected_model |-> detected_model, listing_type |-> listing_type,
             is_target_exact |-> 0, confidence |-> 92,
             reason |-> Reason("references_target", listing_type, target_model, <<>>)]
        ELSE IF Len(matched_models) > 0 THEN
            [detected_model |-> detected_model, listing_type |-> listing_type,
             is_target_exact |-> 0, confidence |-> 95,
             reason |-> Reason("model_signals", "",
                               IF target_model # None THEN target_model ELSE UNKNOWN,
                               matched_models)]
        ELSE
            [detected_model |-> detected_model, listing_type |-> listing_type,
             is_target_exact |-> 0, confidence |-> 35,
             reason |-> Reason("no_model", "", None, <<>>)]

\* A faulty variant of classification_of: the branch `if matched_models` comes
\* before the branch of a listing that references the target.
classification_of_signals_first(target_model, matched_models, listing_type) ==
    LET target_matched == target_model # None /\ in_list(target_model, matched_models)
        detected_model ==
            IF target_matched THEN target_model
            ELSE IF Len(matched_models) > 0 THEN matched_models[1]
            ELSE UNKNOWN
        non_target_models ==
            SelectSeq(matched_models,
                      LAMBDA model : target_model # None /\ model # target_model)
        is_target_exact ==
            IF /\ target_matched
               /\ Len(non_target_models) = 0
               /\ listing_type = "camera_body"
            THEN 1 ELSE 0
    IN  IF is_target_exact = 1 THEN
            [detected_model |-> detected_model, listing_type |-> listing_type,
             is_target_exact |-> 1, confidence |-> 98,
             reason |-> Reason("exact_target", "", target_model, <<>>)]
        ELSE IF Len(matched_models) > 0 THEN
            [detected_model |-> detected_model, listing_type |-> listing_type,
             is_target_exact |-> 0, confidence |-> 95,
             reason |-> Reason("model_signals", "",
                               IF target_model # None THEN target_model ELSE UNKNOWN,
                               matched_models)]
        ELSE IF target_matched /\ listing_type # "camera_body" THEN
            [detected_model |-> detected_model, listing_type |-> listing_type,
             is_target_exact |-> 0, confidence |-> 92,
             reason |-> Reason("references_target", listing_type, target_model, <<>>)]
        ELSE
            [detected_model |-> detected_model, listing_type |-> listing_type,
             is_target_exact |-> 0, confidence |-> 35,
             reason |-> Reason("no_model", "", None, <<>>)]

\* A faulty variant of classification_of: detected_model is the first matched
\* model, whether or not the target matched.
classification_of_first_match(target_model, matched_models, listing_type) ==
    LET target_matched == target_model # None /\ in_list(target_model, matched_models)
        detected_model ==
            IF Len(matched_models) > 0 THEN matched_models[1]
            ELSE UNKNOWN
        non_target_models ==
            SelectSeq(matched_models,
                      LAMBDA model : target_model # None /\ model # target_model)
        is_target_exact ==
            IF /\ target_matched
               /\ Len(non_target_models) = 0
               /\ listing_type = "camera_body"
            THEN 1 ELSE 0
    IN  IF is_target_exact = 1 THEN
            [detected_model |-> detected_model, listing_type |-> listing_type,
             is_target_exact |-> 1, confidence |-> 98,
             reason |-> Reason("exact_target", "", target_model, <<>>)]
        ELSE IF target_matched /\ listing_type # "camera_body" THEN
            [detected_model |-> detected_model, listing_type |-> listing_type,
             is_target_exact |-> 0, confidence |-> 92,
             reason |-> Reason("references_target", listing_type, target_model, <<>>)]
        ELSE IF Len(matched_models) > 0 THEN
            [detected_model |-> detected_model, listing_type |-> listing_type,
             is_target_exact |-> 0, confidence |-> 95,
             reason |-> Reason("model_signals", "",
                               IF target_model # None THEN target_model ELSE UNKNOWN,
                               matched_models)]
        ELSE
            [detected_model |-> detected_model, listing_type |-> listing_type,
             is_target_exact |-> 0, confidence |-> 35,
             reason |-> Reason("no_model", "", None, <<>>)]

\* A faulty variant of classification_of: a text without a model is given
\* the confidence 0.5.
classification_of_half_confidence(target_model, matched_models, listing_type) ==
    LET target_matched == target_model # None /\ in_list(target_model, matched_models)
        detected_model ==
            IF target_matched THEN target_model
            ELSE IF Len(matched_models) > 0 THEN matched_models[1]
            ELSE UNKNOWN
        non_target_models ==
            SelectSeq(matched_models,
                      LAMBDA model : target_model # None /\ model # target_model)
        is_target_exact ==
            IF /\ target_matched
               /\ Len(non_target_models) = 0
               /\ listing_type = "camera_body"
            THEN 1 ELSE 0
    IN  IF is_target_exact = 1 THEN
            [detected_model |-> detected_model, listing_type |-> listing_type,
             is_target_exact |-> 1, confidence |-> 98,
             reason |-> Reason("exact_target", "", target_model, <<>>)]
        ELSE IF target_matched /\ listing_type # "camera_body" THEN
            [detected_model |-> detected_model, listing_type |-> listing_type,
             is_target_exact |-> 0, confidence |-> 92,
             reason |-> Reason("references_target", listing_type, target_model, <<>>)]
        ELSE IF Len(matched_models) > 0 THEN
            [detected_model |-> detected_model, listing_type |-> listing_type,
             is_target_exact |-> 0, confidence |-> 95,
             reason |-> Reason("model_signals", "",
                               IF target_model # None THEN target_model ELSE UNKNOWN,
                               matched_models)]
        ELSE
            [detected_model |-> detected_model, listing_type |-> listing_type,
             is_target_exact |-> 0, confidence |-> 50,
             reason |-> Reason("no_model", "", None, <<>>)]

\* Lines 667-729 of _classify_listing: the classification of a text with the
\* given target model, matched models and listing type.  The confidence is in
\* hundredths (0.98 is 98).
classification_of(target_model, matched_models, listing_type) ==
    LET target_matched == target_model # None /\ in_list(target_model, matched_models)
        detected_model ==
            IF target_matched THEN target_model
            ELSE IF Len(matched_models) > 0 THEN matched_models[1]
            ELSE UNKNOWN
        non_target_models ==
            SelectSeq(matched_models,
                      LAMBDA model : target_model # None /\ model # target_model)
        is_target_exact ==
            IF /\ target_matched
               /\ Len(non_target_models) = 0
               /\ listing_type = "camera_body"
            THEN 1 ELSE 0
    IN  IF is_target_exact = 1 THEN
            [detected_model |-> detected_model, listing_type |-> listing_type,
             is_target_exact |-> 1, confidence |-> 98,
             reason |-> Reason("exact_target", "", target_model, <<>>)]
        ELSE IF target_matched /\ listing_type # "camera_body" THEN
            [detected_model |-> detected_model, listing_type |-> listing_type,
             is_target_exact |-> 0, confidence |-> 92,
             reason |-> Reason("references_target", listing_type, target_model, <<>>)]
        ELSE IF Len(matched_models) > 0 THEN
            [detected_model |-> detected_model, listing_type |-> listing_type,
             is_target_exact |-> 0, confidence |-> 95,
             reason |-> Reason("model_signals", "",
                               IF target_model # None THEN target_model ELSE UNKNOWN,
                               matched_models)]
        ELSE
            [detected_model |-> detected_model, listing_type |-> listing_type,
             is_target_exact |-> 0, confidence |-> 35,
             reason |-> Reason("no_model", "", None, <<>>)]

\* Lines 665-666: listing_type = _detect_listing_type(text, matched_models)
classification_with(sig, target_model, matched_models) ==
    classification_of(target_model, matched_models,
                      detect_listing_type(sig, matched_models))

\* _classify_listing on the signals of the listing's combined text.
classify_signals(sig, item_name) ==
    classification_with(sig, target_model_from_item_name(item_name), extract_models(sig))

\* SQL NULL in the numeric and timestamp columns (every real value is >= 0).
NullNumber == -1

\* One second and one day of the clock, in half seconds.
Second == 2

Day == 172800

(***************************************************************************)
(* Listing texts                                                           *)
(***************************************************************************)

sony_a7c2 == <<"s","o","n","y","_","a","7","c","2">>

sony_a7c == <<"s","o","n","y","_","a","7","c">>

NoSignals ==
    [curated |-> {}, sony |-> FALSE, sony_tokens |-> <<>>, rx_tokens |-> <<>>,
     accessory |-> FALSE, compatibility |-> FALSE, lens |-> FALSE, camera |-> FALSE]

\* What the compiled patterns report on
\*   " ".join([title or "", description or ""]).strip().lower()
\* for the listing texts used as inputs (the texts of tests/test_market_data.py).
RegexSignals(title, description) ==
    CASE title = "Sony A7C II" /\ description = "Sony A7C II body only." ->
            [NoSignals EXCEPT !.curated = {sony_a7c2}, !.sony = TRUE,
                              !.sony_tokens = << <<"a","7","c">>, <<"a","7","c">> >>,
                              !.camera = TRUE]
      [] title = "Sony A7C full-frame camera"
         /\ description = "Sony A7C camera body in excellent condition." ->
            [NoSignals EXCEPT !.curated = {sony_a7c}, !.sony = TRUE,
                              !.sony_tokens = << <<"a","7","c">>, <<"a","7","c">> >>,
                              !.camera = TRUE]
      [] title = "Quick release plate for Sony A7C II" /\ description = "" ->
            [NoSignals EXCEPT !.curated = {sony_a7c2}, !.sony = TRUE,
                              !.sony_tokens = << <<"a","7","c">> >>,
                              !.accessory = TRUE, !.compatibility = TRUE]
      [] OTHER -> NoSignals

\* The listing texts and item names the store is called with or holds.
KnownTexts ==
    {<<"Sony A7C II", "Sony A7C II body only.">>,
     <<"Sony A7C full-frame camera", "Sony A7C camera body in excellent condition.">>,
     <<"Quick release plate for Sony A7C II", "">>,
     <<"Old desk lamp", "Warm light.">>}

KnownItemNames ==
    {sony_a7c2, sony_a7c,
     <<"S","o","n","y"," ","A","7","C"," ","I","I">>,
     <<"s","o","n","y","_","a","7","c","_","i","i">>}

\* _classify_listing on the known inputs, computed once: a set of
\* <<<<title, description, item_name>>, classification>> pairs.
ClassificationTable ==
    {<<<<k[1][1], k[1][2], k[2]>>, classify_signals(RegexSignals(k[1][1], k[1][2]), k[2])>> :
        k \in KnownTexts \X KnownItemNames}

\* _classify_listing(listing, item_name): only title and description are read.
classify_listing(title, description, item_name) ==
    (CHOOSE p \in ClassificationTable : p[1] = <<title, description, item_name>>)[2]

(***************************************************************************)
(* Price parsing                                                           *)
(***************************************************************************)

\* The sentinel "**unspecified**".
UNSPECIFIED == <<"*","*","u","n","s","p","e","c","i","f","i","e","d","*","*">>

DigitChars == <<"0","1","2","3","4","5","6","7","8","9">>

digit_value(c) == (CHOOSE i \in 1..10 : DigitChars[i] = c) - 1

\* int() of a run of digits and thousands separators with the commas removed.
RECURSIVE digits_to_int(_)
digits_to_int(s) ==
    IF Len(s) = 0 THEN 0
    ELSE IF s[Len(s)] = ","
         THEN digits_to_int(SubSeq(s, 1, Len(s) - 1))
         ELSE 10 * digits_to_int(SubSeq(s, 1, Len(s) - 1)) + digit_value(s[Len(s)])

\* price_text.split("|")[0].strip()
primary_segment(price_text) ==
    LET bars == {i \in 1..Len(price_text) : price_text[i] = "|"}
        first == IF bars = {} THEN price_text
                 ELSE SubSeq(price_text, 1,
                             (CHOOSE i \in bars : \A j \in bars : i <= j) - 1)
    IN  strip_char(first, " ")

is_digit(c) == c \in Digits

is_digit_or_comma(c) == c \in Digits \cup {","}

is_space(c) == c \in Whitespace

\* [^\d\s]
is_currency_char(c) == c \notin Digits \cup Whitespace

\* str.replace(",", "")
remove_commas(s) == SelectSeq(s, LAMBDA c : c # ",")

\* What a call yields in place of a value when it raises.
Raised == -2

\* float(text), in hundredths: a run of digits, or digits "." digits.  Any
\* other text raises ValueError (the forms float() accepts beyond these, such
\* as exponents, signs and "inf", hold a character the pattern of _parse_price
\* never puts into the value group).
float_of(text) ==
    LET dots == {i \in 1..Len(text) : text[i] = "."}
        digit_at == {i \in 1..Len(text) : text[i] \in Digits}
    IN  IF digit_at = {} \/ Cardinality(dots) > 1 \/ digit_at \cup dots # 1..Len(text)
        THEN Raised
        ELSE LET dot == IF dots = {} THEN Len(text) + 1 ELSE CHOOSE i \in dots : TRUE
                 frac == SubSeq(text, dot + 1, Len(text))
             IN  100 * digits_to_int(SubSeq(text, 1, dot - 1))
                 + (IF Len(frac) = 0 THEN 0
                    ELSE IF Len(frac) = 1 THEN 10 * digit_value(frac[1])
                    ELSE 10 * digit_value(frac[1]) + digit_value(frac[2]))

\* Length of the longest run of characters of the class that starts at
\* s[from]; `in_class` holds the positions of s with a character of the class.
run_length(s, from, in_class) ==
    LET stop == (from..Len(s)) \ in_class
    IN  IF stop = {} THEN Len(s) - from + 1
        ELSE (CHOOSE i \in stop : \A j \in stop : i <= j) - from

\* Length of the longest run of characters of the class that ends at s[to].
run_length_back(s, to, in_class) ==
    LET stop == (1..to) \ in_class
    IN  IF stop = {} THEN to
        ELSE to - (CHOOSE i \in stop : \A j \in stop : j <= i)

\* A faulty variant of _parse_price: the test `if matched is None` is
\* missing, so matched.group raises on a text without a digit.
parse_price_unguarded(price_text) ==
    IF price_text = <<>> \/ price_text = UNSPECIFIED
    THEN [value |-> NullNumber, currency |-> None]
    ELSE
    LET primary == primary_segment(price_text)
        digit_at == {i \in 1..Len(primary) : primary[i] \in Digits}
    IN  IF digit_at = {} THEN [value |-> Raised, currency |-> None]
        ELSE
        LET p == CHOOSE i \in digit_at : \A j \in digit_at : i <= j
            spaces == run_length_back(primary, p - 1,
                                      {i \in 1..Len(primary) : is_space(primary[i])})
            run == run_length_back(primary, p - 1 - spaces,
                                   {i \in 1..Len(primary) : is_currency_char(primary[i])})
            taken == IF run > 3 THEN 3 ELSE run
            currency == SubSeq(primary, p - spaces - taken, p - spaces - 1)
            whole_len == run_length(primary, p,
                                    {i \in 1..Len(primary) : is_digit_or_comma(primary[i])})
            after == p + whole_len
            frac_len == IF after <= Len(primary) /\ primary[after] = "."
                        THEN run_length(primary, after + 1,
                                        {i \in 1..Len(primary) : is_digit(primary[i])}) ELSE 0
            value_text == SubSeq(primary, p,
                                 IF frac_len = 0 THEN after - 1 ELSE after + frac_len)
        IN  [value |-> float_of(remove_commas(value_text)),
             currency |-> IF taken > 0 THEN currency ELSE None]

\* _parse_price.  The pattern
\*   (?P<currency>[^\d\s]{1,3}|[A-Z]{3})?\s*(?P<value>\d[\d,]*(?:\.\d+)?)
\* is searched leftmost: the value starts at the first digit, and the currency
\* is the last (at most three) characters of the run of non-digit, non-space
\* characters that ends right before the white space in front of that digit.
\* price_value is held in hundredths; fraction digits after the second are
\* dropped.  The value text goes through float() with its commas removed.
parse_price(price_text) ==
    IF price_text = <<>> \/ price_text = UNSPECIFIED
    THEN [value |-> NullNumber, currency |-> None]
    ELSE
    LET primary == primary_segment(price_text)
        digit_at == {i \in 1..Len(primary) : primary[i] \in Digits}
    IN  IF digit_at = {} THEN [value |-> NullNumber, currency |-> None]
        ELSE
        LET p == CHOOSE i \in digit_at : \A j \in digit_at : i <= j
            spaces == run_length_back(primary, p - 1,
                                      {i \in 1..Len(primary) : is_space(primary[i])})
            run == run_length_back(primary, p - 1 - spaces,
                                   {i \in 1..Len(primary) : is_currency_char(primary[i])})
            taken == IF run > 3 THEN 3 ELSE run
            currency == SubSeq(primary, p - spaces - taken, p - spaces - 1)
            whole_len == run_length(primary, p,
                                    {i \in 1..Len(primary) : is_digit_or_comma(primary[i])})
            after == p + whole_len
            frac_len == IF after <= Len(primary) /\ primary[after] = "."
                        THEN run_length(primary, after + 1,
                                        {i \in 1..Len(primary) : is_digit(primary[i])}) ELSE 0
            value_text == SubSeq(primary, p,
                                 IF frac_len = 0 THEN after - 1 ELSE after + frac_len)
        IN  [value |-> float_of(remove_commas(value_text)),
             currency |-> IF taken > 0 THEN currency ELSE None]

(***************************************************************************)
(* Observation store                                                       *)
(*                                                                         *)
(* A row of listing_observations carries the columns some query reads or   *)
(* some statement writes with a computed value.  post_url, location,       *)
(* seller and item_condition are stored as given and read by no query      *)
(* that decides anything; they are left out.                               *)
(***************************************************************************)

\* A faulty variant of listing_rows: the marketplace is not compared, so a
\* listing id in use on two marketplaces reads as one listing.
listing_rows_any_marketplace(rs, marketplace, listing_id) ==
    {i \in 1..Len(rs) : rs[i].listing_id = listing_id}

\* The rows of (marketplace, listing_id), as row ids.
listing_rows(rs, marketplace, listing_id) ==
    {i \in 1..Len(rs) : rs[i].marketplace = marketplace /\ rs[i].listing_id = listing_id}

\* The row ids of S with the greatest / the least observed_at.
latest_in(rs, S) == {i \in S : \A j \in S : rs[j].observed_at <= rs[i].observed_at}

earliest_in(rs, S) == {i \in S : \A j \in S : rs[i].observed_at <= rs[j].observed_at}

\* The values the two classification passes bind to their UPDATE: the
\* canonical item name and the classification.
update_values(item_name, classification) ==
    [item_name |-> canonical_item_name(item_name, classification.detected_model),
     classification |-> classification]

\* The values the two classification passes compute for one fetched row: the
\* classifier runs on the stored title and description with the stored
\* item_name as the searched item.
reclassified_values(fetched) ==
    update_values(fetched.item_name,
                  classify_listing(fetched.title, fetched.description, fetched.item_name))

\* UPDATE listing_observations SET item_name = ?, detected_model = ?, ... on one row.
set_classification(row, values) ==
    [row EXCEPT
        !.item_name = values.item_name,
        !.detected_model = values.classification.detected_model,
        !.listing_type = values.classification.listing_type,
        !.is_target_exact = values.classification.is_target_exact,
        !.classification_confidence = values.classification.confidence,
        !.classification_reason = values.classification.reason]

\* A faulty variant of update_classification: the UPDATE without its
\* WHERE id = ?, which writes the fetched row's values to every row.
update_classification_all_rows(rs, id, fetched) ==
    [i \in 1..Len(rs) |-> set_classification(rs[i], reclassified_values(fetched))]

\* ... WHERE id = ?: only the fetched row's own record takes its new values.
update_classification(rs, id, fetched) ==
    [rs EXCEPT ![id] = set_classification(rs[id], reclassified_values(fetched))]

\* The loop `for row in rows` over the rows fetched before it, in rowid order.
RECURSIVE classification_loop(_, _, _)
classification_loop(rs, fetched, ids) ==
    IF ids = {} THEN rs
    ELSE LET id == CHOOSE i \in ids : \A j \in ids : i <= j
         IN  classification_loop(update_classification(rs, id, fetched[id]),
                                 fetched, ids \ {id})

\* _backfill_classification: every row WHERE classification_reason IS NULL.
backfill_classification(rs) ==
    classification_loop(rs, rs,
        {i \in 1..Len(rs) : rs[i].classification_reason = NullReason})

\* A faulty variant of ensure_schema: the backfill is left out.
ensure_schema_without_backfill(rs, ready) == rs

\* _ensure_schema: the table contents it leaves (the flag is set by the caller's
\* action).  CREATE ... IF NOT EXISTS and the column check change no row.
ensure_schema(rs, ready) == IF ready THEN rs ELSE backfill_classification(rs)

\* A faulty variant of _estimate_sold_time: the lookup of an existing
\* estimate is skipped, so every 'out' observation computes its own.
estimate_sold_time_recomputed(rs, marketplace, listing_id, observed_at) ==
    LET active == {i \in listing_rows(rs, marketplace, listing_id) :
                      rs[i].availability # "out"}
    IN  IF active = {} THEN <<observed_at, "first_seen_out_of_stock">>
        ELSE <<rs[CHOOSE i \in latest_in(rs, active) : TRUE].observed_at
                  + (observed_at
                     - rs[CHOOSE i \in latest_in(rs, active) : TRUE].observed_at) \div 2,
               "midpoint_last_active_and_first_sold">>

\* A faulty variant of _estimate_sold_time: the last-active query orders
\* ascending, so the midpoint starts at the first active observation.
estimate_sold_time_earliest_active(rs, marketplace, listing_id, observed_at) ==
    LET mine == listing_rows(rs, marketplace, listing_id)
        estimated == {i \in mine : rs[i].availability = "out"
                                   /\ rs[i].sold_estimated_at # NullNumber}
        active == {i \in mine : rs[i].availability # "out"}
    IN  IF estimated # {} THEN
            <<rs[CHOOSE i \in earliest_in(rs, estimated) : TRUE].sold_estimated_at,
              rs[CHOOSE i \in earliest_in(rs, estimated) : TRUE].sold_time_method>>
        ELSE IF active = {} THEN <<observed_at, "first_seen_out_of_stock">>
        ELSE <<rs[CHOOSE i \in earliest_in(rs, active) : TRUE].observed_at
                  + (observed_at
                     - rs[CHOOSE i \in earliest_in(rs, active) : TRUE].observed_at) \div 2,
               "midpoint_last_active_and_first_sold">>

\* A faulty variant of _estimate_sold_time: the half of the gap is added to
\* the time of the 'out' observation instead of the last active one.
estimate_sold_time_past_first_sold(rs, marketplace, listing_id, observed_at) ==
    LET mine == listing_rows(rs, marketplace, listing_id)
        estimated == {i \in mine : rs[i].availability = "out"
                                   /\ rs[i].sold_estimated_at # NullNumber}
        active == {i \in mine : rs[i].availability # "out"}
    IN  IF estimated # {} THEN
            <<rs[CHOOSE i \in earliest_in(rs, estimated) : TRUE].sold_estimated_at,
              rs[CHOOSE i \in earliest_in(rs, estimated) : TRUE].sold_time_method>>
        ELSE IF active = {} THEN <<observed_at, "first_seen_out_of_stock">>
        ELSE <<observed_at
                  + (observed_at
                     - rs[CHOOSE i \in latest_in(rs, active) : TRUE].observed_at) \div 2,
               "midpoint_last_active_and_first_sold">>

\* _estimate_sold_time, as <<sold_estimated_at, sold_time_method>>.  The UNIQUE
\* constraint leaves one 'out' row per observed_at of a listing, so ORDER BY
\* observed_at ASC LIMIT 1 names one row.
estimate_sold_time(rs, marketplace, listing_id, observed_at) ==
    LET mine == listing_rows(rs, marketplace, listing_id)
        estimated == {i \in mine : rs[i].availability = "out"
                                   /\ rs[i].sold_estimated_at # NullNumber}
        active == {i \in mine : rs[i].availability # "out"}
    IN  IF estimated # {} THEN
            LET existing == rs[CHOOSE i \in earliest_in(rs, estimated) : TRUE]
            IN  <<existing.sold_estimated_at,
                  IF existing.sold_time_method = "NULL" THEN "first_seen_out_of_stock"
                  ELSE existing.sold_time_method>>
        ELSE IF active = {} THEN <<observed_at, "first_seen_out_of_stock">>
        ELSE
            LET last_active_ts == rs[CHOOSE i \in latest_in(rs, active) : TRUE].observed_at
                first_sold_ts == observed_at
                midpoint == last_active_ts + (first_sold_ts - last_active_ts) \div 2
            IN  <<midpoint, "midpoint_last_active_and_first_sold">>

\* The values of the INSERT of record_observation.
observation_row(listing, item_name, search_city, search_phrase, availability, observed_at, price, classification, sold) ==
    [observed_at |-> observed_at,
     marketplace |-> listing.marketplace,
     item_name |-> canonical_item_name(item_name, classification.detected_model),
     search_city |-> search_city,
     search_phrase |-> search_phrase,
     listing_id |-> listing.id,
     title |-> listing.title,
     price_text |-> listing.price,
     price_value |-> price.value,
     currency |-> price.currency,
     description |-> listing.description,
     detected_model |-> classification.detected_model,
     listing_type |-> classification.listing_type,
     is_target_exact |-> classification.is_target_exact,
     classification_confidence |-> classification.confidence,
     classification_reason |-> classification.reason,
     availability |-> availability,
     sold_estimated_at |-> sold[1],
     sold_time_method |-> sold[2]]

\* A faulty variant of new_row: the sale time is estimated for every
\* observation, whatever its availability.
new_row_always_estimated(rs, listing, item_name, search_city, search_phrase, availability, observed_at) ==
    observation_row(listing, item_name, search_city, search_phrase, availability,
        observed_at,
        parse_price(listing.price),
        classify_listing(listing.title, listing.description, item_name),
        estimate_sold_time(rs, listing.marketplace, listing.id, observed_at))

\* Lines 1092-1108: the row record_observation inserts into the table rs.
new_row(rs, listing, item_name, search_city, search_phrase, availability, observed_at) ==
    observation_row(listing, item_name, search_city, search_phrase, availability,
        observed_at,
        parse_price(listing.price),
        classify_listing(listing.title, listing.description, item_name),
        IF availability = "out"
        THEN estimate_sold_time(rs, listing.marketplace, listing.id, observed_at)
        ELSE <<NullNumber, "NULL">>)

\* UNIQUE(observed_at, marketplace, listing_id, availability)
same_key(a, b) ==
    /\ a.observed_at = b.observed_at
    /\ a.marketplace = b.marketplace
    /\ a.listing_id = b.listing_id
    /\ a.availability = b.availability

\* A faulty variant of insert_or_ignore: the table was created without its
\* UNIQUE constraint, so the INSERT has no conflict to ignore.
insert_without_constraint(rs, row) == Append(rs, row)

\* A faulty variant of insert_or_ignore: INSERT OR REPLACE, which deletes the
\* row that holds the key and inserts the new one.
insert_or_replace(rs, row) ==
    Append(SelectSeq(rs, LAMBDA r : ~same_key(r, row)), row)

\* INSERT OR IGNORE
insert_or_ignore(rs, row) ==
    IF \E i \in 1..Len(rs) : same_key(rs[i], row) THEN rs ELSE Append(rs, row)

\* `last`: the call made last (op), whether the call before it was the same
\* one (repeated), and what it returned: the count of reclassify_unknown_rows
\* (updated); the arguments (key), the returned triple (summary) and the row
\* ids the two aggregate queries read WHERE rn = 1 (price_rows, currency_rows)
\* of refresh_market_price.
NoSummary == [sample_size |-> 0, msrp_estimate |-> None, currency |-> None]

\* get_latest_listing_snapshot returns None, or a Listing of which the title,
\* the price and the description are read here.
NoSnapshot == [title |-> None, price |-> None, description |-> None]

\* Further fields of `last`: the arguments of record_observation (call) and
\* whether it raised; the (marketplace, listing_id) asked of
\* get_latest_listing_snapshot (key), whether it found a row (found) and the
\* Listing it returned (snapshot); the sample_size refresh_market_price found
\* in the market_price row of its key before the upsert (replaced; NullNumber
\* when there was no row).
NoCall ==
    [op |-> "none", repeated |-> FALSE, updated |-> 0, key |-> <<>>,
     summary |-> NoSummary, price_rows |-> {}, currency_rows |-> {},
     call |-> <<>>, raised |-> FALSE, found |-> FALSE, snapshot |-> NoSnapshot,
     replaced |-> NullNumber]

\* The processes that call record_observation on one database at a time.
Procs == {1, 2}

\* No record_observation call is under way.
NoInflight == [p \in Procs |-> [pc |-> "idle", call |-> <<>>, observed_at |-> NullNumber, sold |-> <<NullNumber, "NULL">>]]

\* No _iter_category_posts call is under way.
NoCrawl ==
    [pc |-> "idle", site |-> <<>>, max_pages |-> NullNumber, page_url |-> None,
     visited_pages |-> {}, fetched |-> <<>>, page_count |-> 0]

\* The clock moves on by one second.
Tick ==
    /\ now < MaxTicks * Second
    /\ now' = now + Second
    /\ UNCHANGED <<rows, market_price, schema_ready, last, probe, instance, inflight, crawl>>

\* Lines 1092-1163: the table after the INSERT OR IGNORE of the new row.
with_observation(rs, listing, item_name, search_city, search_phrase, availability, observed_at) ==
    insert_or_ignore(rs, new_row(rs, listing, item_name, search_city, search_phrase,
                                 availability, observed_at))

\* record_observation, with the record `noted` taking the call's outcome.
\* _parse_price runs before the database is opened: when it raises, the call
\* ends there and the store is as it was.
RecordNoting(listing, item_name, search_city, search_phrase, availability, noted) ==
    /\ Len(rows) < MaxRows
    /\ IF parse_price(listing.price).value = Raised
       THEN UNCHANGED <<rows, schema_ready>>
       ELSE /\ rows' = with_observation(ensure_schema(rows, schema_ready), listing,
                            item_name, search_city, search_phrase, availability, now)
            /\ schema_ready' = TRUE
    /\ last' = [noted EXCEPT !.op = "record_observation",
                             !.raised = (parse_price(listing.price).value = Raised)]
    /\ UNCHANGED <<market_price, now, probe, instance, inflight, crawl>>

\* record_observation(listing, item_name, search_city, search_phrase, availability)
RecordObservation(listing, item_name, search_city, search_phrase, availability) ==
    RecordNoting(listing, item_name, search_city, search_phrase, availability, NoCall)

\* The Listing built from the fetched row.  str(x or "") turns a NULL into the
\* empty text, which is how a missing text is held here; a stored text comes
\* back as it is.
snapshot_of(row) ==
    [title |-> row.title, price |-> row.price_text, description |-> row.description]

\* Lines 941-976 on the table _ensure_schema leaves: ORDER BY observed_at DESC
\* LIMIT 1 returns one of the listing's rows with the greatest observed_at
\* (which one is the engine's choice), and the call returns None without one.
SnapshotOn(ready_rows, marketplace, listing_id) ==
    /\ rows' = ready_rows
    /\ schema_ready' = TRUE
    /\ IF listing_rows(ready_rows, marketplace, listing_id) = {}
       THEN last' = [NoCall EXCEPT !.op = "get_latest_listing_snapshot",
                                   !.key = <<marketplace, listing_id>>]
       ELSE \E i \in latest_in(ready_rows, listing_rows(ready_rows, marketplace, listing_id)) :
                last' = [NoCall EXCEPT !.op = "get_latest_listing_snapshot",
                                       !.key = <<marketplace, listing_id>>,
                                       !.found = TRUE,
                                       !.snapshot = snapshot_of(ready_rows[i])]
    /\ UNCHANGED <<market_price, now, probe, instance, inflight, crawl>>

\* get_latest_listing_snapshot(marketplace, listing_id)
GetLatestListingSnapshot(marketplace, listing_id) ==
    SnapshotOn(ensure_schema(rows, schema_ready), marketplace, listing_id)

\* The characters a currency can hold here, in code point order (SQLite's
\* BINARY collation compares the encoded bytes).
CodeOrder ==
    <<"$", "*", ",", "-", ".">> \o UpperChars \o <<"_">> \o LowerChars \o <<"|">>

char_code(c) == CHOOSE i \in 1..Len(CodeOrder) : CodeOrder[i] = c

\* a < b for strings under BINARY collation.
RECURSIVE text_less(_, _)
text_less(a, b) ==
    IF Len(b) = 0 THEN FALSE
    ELSE IF Len(a) = 0 THEN TRUE
    ELSE IF a[1] = b[1] THEN text_less(Tail(a), Tail(b))
    ELSE char_code(a[1]) < char_code(b[1])

RECURSIVE sum_prices(_, _)
sum_prices(rs, S) ==
    IF S = {} THEN 0
    ELSE LET i == CHOOSE x \in S : TRUE
         IN  rs[i].price_value + sum_prices(rs, S \ {i})

RECURSIVE gcd(_, _)
gcd(a, b) == IF b = 0 THEN a ELSE gcd(b, a % b)

\* A faulty variant of average: the mean is cut to whole hundredths.
average_truncated(total, count) ==
    IF count = 0 THEN None ELSE <<total \div count, 1>>

\* AVG(price_value) as the fraction <<numerator, denominator>> in lowest terms
\* (of hundredths), None for the NULL of an empty sample.
average(total, count) ==
    IF count = 0 THEN None
    ELSE LET g == gcd(total, count) IN <<total \div g, count \div g>>

\* A faulty variant of effective_sold_time: the window is compared with the
\* time of the observation, whatever sale time was estimated for it.
effective_sold_time_observed(row) == row.observed_at

\* COALESCE(o.sold_estimated_at, o.observed_at)
effective_sold_time(row) ==
    IF row.sold_estimated_at # NullNumber THEN row.sold_estimated_at ELSE row.observed_at

\* The rows either aggregate query reads FROM listing_observations WHERE
\* marketplace = ? AND search_city = ?
scoped_rows(rs, marketplace, search_city) ==
    {i \in 1..Len(rs) : rs[i].marketplace = marketplace /\ rs[i].search_city = search_city}

\* CTE latest_listing_state WHERE rn = 1: one row per listing_id, one of those
\* with the greatest observed_at.  ROW_NUMBER() leaves the order among rows of
\* equal observed_at to the engine, so every such choice is an outcome.
latest_listing_states(rs, marketplace, search_city) ==
    LET scoped == scoped_rows(rs, marketplace, search_city)
        ids == {rs[i].listing_id : i \in scoped}
    IN  {state \in [ids -> scoped] :
            \A id \in ids :
                state[id] \in latest_in(rs, {i \in scoped : rs[i].listing_id = id})}

\* A faulty variant of sold_candidates: the join condition
\* s.availability = 'out' on the listing's latest state is missing.
sold_candidates_ignoring_state(rs, state, item_name, marketplace, search_city, cutoff, priced) ==
    {i \in scoped_rows(rs, marketplace, search_city) :
        /\ rs[i].availability = "out"
        /\ effective_sold_time(rs[i]) >= cutoff
        /\ (priced => rs[i].price_value # NullNumber)
        /\ rs[i].listing_type = "camera_body"
        /\ rs[i].detected_model = item_name}

\* A faulty variant of sold_candidates: the test detected_model = ? is
\* missing, so camera bodies of every model are aggregated under the key.
sold_candidates_any_model(rs, state, item_name, marketplace, search_city, cutoff, priced) ==
    {i \in scoped_rows(rs, marketplace, search_city) :
        /\ rs[state[rs[i].listing_id]].availability = "out"
        /\ rs[i].availability = "out"
        /\ effective_sold_time(rs[i]) >= cutoff
        /\ (priced => rs[i].price_value # NullNumber)
        /\ rs[i].listing_type = "camera_body"}

\* The WHERE clause of CTE latest_sold_row_per_listing, joined to the listing's
\* latest state; the first query also asks price_value IS NOT NULL.
sold_candidates(rs, state, item_name, marketplace, search_city, cutoff, priced) ==
    {i \in scoped_rows(rs, marketplace, search_city) :
        /\ rs[state[rs[i].listing_id]].availability = "out"
        /\ rs[i].availability = "out"
        /\ effective_sold_time(rs[i]) >= cutoff
        /\ (priced => rs[i].price_value # NullNumber)
        /\ rs[i].listing_type = "camera_body"
        /\ rs[i].detected_model = item_name}

\* A faulty variant of latest_sold_row_per_listing: the outer query lacks
\* WHERE rn = 1, so every candidate row is aggregated.
latest_sold_row_per_listing_all(rs, candidates) == candidates

\* latest_sold_row_per_listing WHERE rn = 1
latest_sold_row_per_listing(rs, candidates) ==
    {i \in candidates :
        i \in latest_in(rs, {j \in candidates : rs[j].listing_id = rs[i].listing_id})}

\* SELECT currency, COUNT(*) ... GROUP BY currency ORDER BY cnt DESC, currency ASC
\* LIMIT 1 over the rows of S with a currency.
dominant_currency(rs, S) ==
    LET with_currency == {i \in S : rs[i].currency # None}
        currencies == {rs[i].currency : i \in with_currency}
        cnt(c) == Cardinality({i \in with_currency : rs[i].currency = c})
    IN  IF currencies = {} THEN None
        ELSE CHOOSE c \in currencies :
                \A d \in currencies \ {c} :
                    cnt(c) > cnt(d) \/ (cnt(c) = cnt(d) /\ text_less(c, d))

\* A faulty variant of upsert_market_price: the estimate and the currency are
\* set to COALESCE(excluded.x, x), which keeps the stored value when the new
\* one is NULL.
upsert_market_price_coalesce(table, row) ==
    LET same == {r \in table : /\ r.item_name = row.item_name
                               /\ r.marketplace = row.marketplace
                               /\ r.search_city = row.search_city
                               /\ r.window_days = row.window_days}
        old == CHOOSE r \in same : TRUE
    IN  IF same = {} THEN table \cup {row}
        ELSE (table \ same) \cup
             {[row EXCEPT
                 !.msrp_estimate = IF row.msrp_estimate = None THEN old.msrp_estimate
                                   ELSE row.msrp_estimate,
                 !.currency = IF row.currency = None THEN old.currency
                              ELSE row.currency]}

\* INSERT INTO market_price ... ON CONFLICT (key) DO UPDATE SET ...
upsert_market_price(table, row) ==
    {r \in table : ~(/\ r.item_name = row.item_name
                     /\ r.marketplace = row.marketplace
                     /\ r.search_city = row.search_city
                     /\ r.window_days = row.window_days)} \cup {row}

\* The sample_size of the market_price row the upsert conflicts with.
replaced_sample_size(table, key) ==
    LET old == {r \in table : <<r.item_name, r.marketplace, r.search_city, r.window_days>> = key}
    IN  IF old = {} THEN NullNumber ELSE (CHOOSE r \in old : TRUE).sample_size

\* What the two queries return on the rows they read WHERE rn = 1:
\* COUNT(*) and AVG(price_value) of the first, the currency of the second.
summary_of(rs, price_rows, currency_rows) ==
    [sample_size |-> Cardinality(price_rows),
     msrp_estimate |-> average(sum_prices(rs, price_rows), Cardinality(price_rows)),
     currency |-> dominant_currency(rs, currency_rows),
     price_rows |-> price_rows,
     currency_rows |-> currency_rows]

\* Lines 1179-1291: both queries on the table rs, with the listings' latest
\* states as the engine numbered them.
market_summary(rs, state, item_name, marketplace, search_city, cutoff) ==
    summary_of(rs,
        latest_sold_row_per_listing(rs,
            sold_candidates(rs, state, item_name, marketplace, search_city, cutoff, TRUE)),
        latest_sold_row_per_listing(rs,
            sold_candidates(rs, state, item_name, marketplace, search_city, cutoff, FALSE)))

\* Lines 1293-1325: the upsert of the summary and the returned triple.
StoreSummary(ready_rows, key, result, noted) ==
    /\ rows' = ready_rows
    /\ schema_ready' = TRUE
    /\ market_price' = upsert_market_price(market_price,
           [item_name |-> key[1], marketplace |-> key[2],
            search_city |-> key[3], window_days |-> key[4],
            sample_size |-> result.sample_size, msrp_estimate |-> result.msrp_estimate,
            currency |-> result.currency, updated_at |-> now])
    /\ last' = [noted EXCEPT
                  !.op = "refresh_market_price",
                  !.key = key,
                  !.summary = [sample_size |-> result.sample_size,
                               msrp_estimate |-> result.msrp_estimate,
                               currency |-> result.currency],
                  !.price_rows = result.price_rows,
                  !.currency_rows = result.currency_rows]
    /\ UNCHANGED <<now, probe, instance, inflight, crawl>>

\* Lines 1172-1325 on the table _ensure_schema leaves.
RefreshOn(ready_rows, item_name, marketplace, search_city, window_days, noted) ==
    \E state \in latest_listing_states(ready_rows, marketplace, search_city) :
        StoreSummary(ready_rows, <<item_name, marketplace, search_city, window_days>>,
            market_summary(ready_rows, state, item_name, marketplace, search_city,
                           now - window_days * Day),
            noted)

\* refresh_market_price, with the record `noted` taking the call's outcome.
RefreshNoting(item_name, marketplace, search_city, window_days, noted) ==
    /\ \/ Cardinality(market_price) < MaxSummaries
       \/ \E r \in market_price :
              <<r.item_name, r.marketplace, r.search_city, r.window_days>>
                  = <<item_name, marketplace, search_city, window_days>>
    /\ RefreshOn(ensure_schema(rows, schema_ready), item_name, marketplace, search_city,
                 window_days, noted)

\* refresh_market_price(item_name, marketplace, search_city, window_days)
RefreshMarketPrice(item_name, marketplace, search_city, window_days) ==
    RefreshNoting(item_name, marketplace, search_city, window_days, NoCall)

\* A faulty variant of unknown_rows: the selection of
\* _backfill_classification, which leaves out the rows detected as 'unknown'.
unknown_rows_null_reason_only(rs) ==
    {i \in 1..Len(rs) : rs[i].classification_reason = NullReason}

\* The rows reclassify_unknown_rows selects:
\*   WHERE COALESCE(detected_model, 'unknown') = 'unknown'
\*      OR classification_reason IS NULL
unknown_rows(rs) ==
    {i \in 1..Len(rs) : rs[i].detected_model = UNKNOWN
                        \/ rs[i].classification_reason = NullReason}

\* Lines 825-890: the SELECT, the loop over its rows and the returned count.
ReclassifyOn(ready_rows) ==
    /\ rows' = classification_loop(ready_rows, ready_rows, unknown_rows(ready_rows))
    /\ schema_ready' = TRUE
    /\ last' = [NoCall EXCEPT !.op = "reclassify_unknown_rows",
                              !.repeated = (last.op = "reclassify_unknown_rows"),
                              !.updated = Cardinality(unknown_rows(ready_rows))]
    /\ UNCHANGED <<market_price, now, probe, instance, inflight, crawl>>

\* reclassify_unknown_rows()
ReclassifyUnknownRows == ReclassifyOn(ensure_schema(rows, schema_ready))

\* MarketDataStore(db_path) on the database an earlier instance has used: the
\* new instance starts with _schema_ready False and takes the place of the
\* earlier one.  The constructor does not open the database.
NewInstance ==
    /\ schema_ready
    /\ instance < MaxInstances
    /\ instance' = instance + 1
    /\ schema_ready' = FALSE
    /\ last' = [NoCall EXCEPT !.op = "new_instance"]
    /\ UNCHANGED <<rows, market_price, now, probe, inflight, crawl>>

(***************************************************************************)
(* Direct classification of one text (a pure function of its inputs)       *)
(***************************************************************************)

NoResult ==
    [detected_model |-> None, listing_type |-> "", is_target_exact |-> 0,
     confidence |-> NullNumber, reason |-> NullReason]

NoProbe ==
    [item_name |-> None, sig |-> NoSignals, target |-> None, matched |-> <<>>,
     result |-> NoResult]

\* _classify_listing applied to the probe's text and item name; target and
\* matched hold the target_model and the matched_models of lines 663-664.
Classify ==
    /\ probe.item_name # None
    /\ probe.result = NoResult
    /\ probe' = [probe EXCEPT !.target = target_model_from_item_name(probe.item_name),
                              !.matched = extract_models(probe.sig),
                              !.result = classify_signals(probe.sig, probe.item_name)]
    /\ UNCHANGED <<rows, market_price, now, schema_ready, last, instance, inflight, crawl>>

(***************************************************************************)
(* Inputs                                                                  *)
(***************************************************************************)

Listing(marketplace, id, title, description, price) ==
    [marketplace |-> marketplace, id |-> id, title |-> title,
     description |-> description, price |-> price]

\* The search phrases of the tests: the phrase a search for the item uses.
search_phrase_of(item_name) ==
    IF item_name = sony_a7c2 THEN "sony a7c2"
    ELSE IF item_name = sony_a7c THEN "sony a7c"
    ELSE "camera"

Call(listing, item_name, search_city, availability) ==
    [listing |-> listing, item_name |-> item_name, search_city |-> search_city,
     search_phrase |-> search_phrase_of(item_name), availability |-> availability]

\* The listing of tests/test_market_data.py: a Sony A7C II body.
BodyA7C2(marketplace, id, price) ==
    Listing(marketplace, id, "Sony A7C II", "Sony A7C II body only.", price)

BodyA7C(marketplace, id, price) ==
    Listing(marketplace, id, "Sony A7C full-frame camera",
            "Sony A7C camera body in excellent condition.", price)

PlateA7C2(marketplace, id, price) ==
    Listing(marketplace, id, "Quick release plate for Sony A7C II", "", price)

Lamp(marketplace, id, price) ==
    Listing(marketplace, id, "Old desk lamp", "Warm light.", price)

Usd100 == <<"$","1","0","0">>

Usd300 == <<"$","3","0","0">>

Cad300 == <<"C","A","D"," ","3","0","0">>

Usd100_01 == <<"$","1","0","0",".","0","1">>

\* Calls of SpecSold: one listing text and price, two listings, two
\* marketplaces, seen active ('in') or gone ('out').
SoldCalls ==
    {Call(BodyA7C2(k[1], k[2], Usd100), sony_a7c2, "vancouver", a) :
        k \in {<<"facebook", "l1">>, <<"facebook", "l2">>, <<"craigslist", "l1">>},
        a \in {"in", "out"}}

\* Calls of SpecPrice.
PriceCalls ==
    {Call(BodyA7C2("facebook", "l1", Usd100), sony_a7c2, "vancouver", "out"),
     Call(BodyA7C2("facebook", "l1", UNSPECIFIED), sony_a7c2, "vancouver", "out"),
     Call(BodyA7C2("facebook", "l1", Usd100), sony_a7c2, "vancouver", "all"),
     Call(BodyA7C2("facebook", "l1", Usd100), sony_a7c2, "burnaby", "all"),
     Call(PlateA7C2("facebook", "l1", Usd300), sony_a7c2, "vancouver", "out"),
     Call(BodyA7C2("facebook", "l2", Cad300), sony_a7c2, "vancouver", "out")}

\* Calls of SpecModel: what is searched and what the text names differ.
ModelCalls ==
    {Call(BodyA7C2("facebook", "l1", Usd100), sony_a7c2, "vancouver", "out"),
     Call(BodyA7C("facebook", "l1", Usd300), sony_a7c2, "vancouver", "out"),
     Call(BodyA7C2("facebook", "l2", Usd300), sony_a7c, "vancouver", "out"),
     Call(PlateA7C2("facebook", "l2", Usd100), sony_a7c2, "vancouver", "out")}

Record(calls) ==
    \E c \in calls : RecordObservation(c.listing, c.item_name, c.search_city, c.search_phrase,
                          c.availability)

RecordSold == Record(SoldCalls)

RecordPrice == Record(PriceCalls)

RecordModel == Record(ModelCalls)

\* The call of the tests, with the default window of 30 days.
RefreshPrice == RefreshMarketPrice(sony_a7c2, "facebook", "vancouver", 30)

\* Calls of SpecWindow: a listing seen gone, with and without a price, and a
\* second listing with a price a cent higher.
WindowCalls ==
    {Call(BodyA7C2("facebook", "l1", Usd100), sony_a7c2, "vancouver", "out"),
     Call(BodyA7C2("facebook", "l1", UNSPECIFIED), sony_a7c2, "vancouver", "out"),
     Call(BodyA7C2("facebook", "l2", Usd100_01), sony_a7c2, "vancouver", "out")}

\* The calls, each noted with its arguments.
RecordNoted(calls) ==
    \E c \in calls :
        RecordNoting(c.listing, c.item_name, c.search_city, c.search_phrase, c.availability,
                     [NoCall EXCEPT !.call = c])

RecordWindow == Record(WindowCalls)

\* The default window of 30 days, and a window of no days (the cutoff is the
\* time of the call).
RefreshWindow ==
    \E window_days \in {0, 30} :
        RefreshNoting(sony_a7c2, "facebook", "vancouver", window_days,
            [NoCall EXCEPT !.replaced = replaced_sample_size(market_price,
                               <<sony_a7c2, "facebook", "vancouver", window_days>>)])

Free == <<"F","r","e","e">>

\* Calls of SpecSnapshot: a listing seen with one text and price, seen again
\* after the seller edited both, and seen gone; a second listing with no
\* price text, with the text for an unspecified price and with a price text
\* without a number.
SnapshotCalls ==
    {Call(BodyA7C2("facebook", "l1", Usd100), sony_a7c2, "vancouver", "in"),
     Call(BodyA7C("facebook", "l1", Usd300), sony_a7c2, "vancouver", "in"),
     Call(BodyA7C2("facebook", "l1", Usd100), sony_a7c2, "vancouver", "out"),
     Call(BodyA7C2("facebook", "l2", <<>>), sony_a7c2, "vancouver", "in"),
     Call(BodyA7C2("facebook", "l2", UNSPECIFIED), sony_a7c2, "vancouver", "out"),
     Call(BodyA7C2("facebook", "l2", Free), sony_a7c2, "vancouver", "all")}

RecordSnapshot == RecordNoted(SnapshotCalls)

GetSnapshot ==
    \E listing_id \in {"l1", "l2"} : GetLatestListingSnapshot("facebook", listing_id)

RefreshModel ==
    \E item_name \in {sony_a7c2, sony_a7c} :
        RefreshMarketPrice(item_name, "facebook", "vancouver", 30)

(***************************************************************************)
(* A database written before the classification columns existed            *)
(***************************************************************************)

\* The item name as monitor configurations spell it, before
\* record_observation learnt to store the canonical name.
SonyA7CII == <<"S","o","n","y"," ","A","7","C"," ","I","I">>

\* A row as _ensure_listing_observation_columns leaves it after adding the
\* classification columns: detected_model 'unknown', listing_type 'other',
\* is_target_exact 0 (the column defaults), confidence and reason NULL.
legacy_row(listing_id, text, item_name) ==
    [observed_at |-> 0,
     marketplace |-> "facebook",
     item_name |-> item_name,
     search_city |-> "vancouver",
     search_phrase |-> search_phrase_of(item_name),
     listing_id |-> listing_id,
     title |-> text[1],
     price_text |-> Usd100,
     price_value |-> 10000,
     currency |-> <<"$">>,
     description |-> text[2],
     detected_model |-> UNKNOWN,
     listing_type |-> "other",
     is_target_exact |-> 0,
     classification_confidence |-> NullNumber,
     classification_reason |-> NullReason,
     availability |-> "in",
     sold_estimated_at |-> NullNumber,
     sold_time_method |-> "NULL"]

LegacyIds == <<"old1", "old2", "old3", "old4">>

LegacyContents ==
    {<<"Old desk lamp", "Warm light.">>, <<"Sony A7C II", "Sony A7C II body only.">>}
        \X {SonyA7CII, sony_a7c2}

\* The tables such a database may hold: up to MaxLegacyRows rows of distinct
\* listings.
LegacyTables ==
    UNION {{[i \in 1..n |-> legacy_row(LegacyIds[i], c[i][1], c[i][2])] :
                c \in [1..n -> LegacyContents]} : n \in 0..MaxLegacyRows}

\* Calls of SpecReclass: a text no pattern matches and a camera body.
ReclassCalls ==
    {Call(Lamp("facebook", "l1", Usd100), SonyA7CII, "vancouver", "in"),
     Call(BodyA7C2("facebook", "l2", Usd100), sony_a7c2, "vancouver", "in")}

RecordReclass == RecordNoted(ReclassCalls)

(***************************************************************************)
(* Direct classifier calls                                                 *)
(***************************************************************************)

\* What the patterns may report on a text that names the model m, alone or
\* next to another model, with or without accessory, compatibility, lens and
\* camera words.
ProbeSignals(m) ==
    {[NoSignals EXCEPT !.curated = c, !.accessory = f[1], !.compatibility = f[2],
                       !.lens = f[3], !.camera = f[4]] :
        c \in {{}, {m}, {m, sony_a7c2}},
        f \in BOOLEAN \X BOOLEAN \X BOOLEAN \X BOOLEAN}

ProbeInputs ==
    UNION {{[NoProbe EXCEPT !.item_name = MODEL_PATTERNS[k], !.sig = sig] :
                sig \in ProbeSignals(MODEL_PATTERNS[k])} : k \in 1..Len(MODEL_PATTERNS)}

\* Models of the Sony A1 and A7 families: generic models, their declared
\* specific models, and sony_a7c and sony_a7r, which are both.
ExtractFamily ==
    {<<"s","o","n","y","_","a","1">>, <<"s","o","n","y","_","a","1","i","i">>,
     <<"s","o","n","y","_","a","7">>, sony_a7c, sony_a7c2,
     <<"s","o","n","y","_","a","7","r">>, <<"s","o","n","y","_","a","7","r","i","v">>}

\* Texts that name "sony" and any models of the family, with or without the
\* tokens "a7" and "a7c" for the fallback extractor.
ExtractInputs ==
    {[NoProbe EXCEPT !.item_name = sony_a7c2,
                     !.sig = [NoSignals EXCEPT !.curated = c, !.sony = TRUE,
                                               !.sony_tokens = t, !.camera = TRUE]] :
        c \in SUBSET ExtractFamily,
        t \in {<<>>, << <<"a","7">> >>, << <<"a","7","c">>, <<"a","7">> >>}}

(***************************************************************************)
(* Specifications                                                          *)
(***************************************************************************)

\* A new store instance on a database that does not exist yet.
Init ==
    /\ rows = <<>>
    /\ market_price = {}
    /\ now = 0
    /\ schema_ready = FALSE
    /\ last = NoCall
    /\ probe = NoProbe
    /\ instance = 1
    /\ inflight = NoInflight
    /\ crawl = NoCrawl

NextSold == Tick \/ RecordSold

SpecSold == Init /\ [][NextSold]_vars

NextPrice == Tick \/ RecordPrice \/ RefreshPrice

SpecPrice == Init /\ [][NextPrice]_vars

NextModel == Tick \/ RecordModel \/ RefreshModel

SpecModel == Init /\ [][NextModel]_vars

NextWindow == Tick \/ RecordWindow \/ RefreshWindow

SpecWindow == Init /\ [][NextWindow]_vars

NextSnapshot == Tick \/ RecordSnapshot \/ GetSnapshot

SpecSnapshot == Init /\ [][NextSnapshot]_vars

\* A new store instance on a database an earlier version of the code wrote.
InitReclass ==
    /\ rows \in LegacyTables
    /\ market_price = {}
    /\ now = 0
    /\ schema_ready = FALSE
    /\ last = NoCall
    /\ probe = NoProbe
    /\ instance = 1
    /\ inflight = NoInflight
    /\ crawl = NoCrawl

NextReclass == Tick \/ RecordReclass \/ ReclassifyUnknownRows

SpecReclass == InitReclass /\ [][NextReclass]_vars

(***************************************************************************)
(* record_observation by two processes on one database                     *)
(*                                                                         *)
(* Each process has a store instance and a connection of its own.  The     *)
(* two SELECTs of _estimate_sold_time run in autocommit mode (the sqlite3  *)
(* module opens a transaction only before the INSERT), so they take no     *)
(* lock that lasts to the INSERT; the INSERT and the commit are one write  *)
(* transaction, and SQLite lets one writer in at a time.  A call is thus   *)
(* three steps: its start, its reads and its write.                        *)
(***************************************************************************)

RaceCalls ==
    {Call(BodyA7C2("facebook", "l1", Usd100), sony_a7c2, "vancouver", a) :
        a \in {"in", "out"}}

\* Lines 1088-1094: the timestamp is taken, and the price and the
\* classification computed, before the database is opened.
BeginRecord(p) ==
    /\ inflight[p].pc = "idle"
    /\ Len(rows) + Cardinality({q \in Procs : inflight[q].pc # "idle"}) < MaxRows
    /\ \E c \in RaceCalls :
           inflight' = [inflight EXCEPT ![p] =
                           [pc |-> "begun", call |-> c, observed_at |-> now,
                            sold |-> <<NullNumber, "NULL">>]]
    /\ UNCHANGED <<rows, market_price, now, schema_ready, last, probe, instance, crawl>>

\* Lines 1096-1108: _ensure_schema, which commits, and for an 'out'
\* observation the reads of _estimate_sold_time on the table as it is now.
ReadPrior(p) ==
    /\ inflight[p].pc = "begun"
    /\ rows' = ensure_schema(rows, schema_ready)
    /\ schema_ready' = TRUE
    /\ inflight' = [inflight EXCEPT
           ![p].pc = "read",
           ![p].sold = IF inflight[p].call.availability = "out"
                       THEN estimate_sold_time(ensure_schema(rows, schema_ready),
                                inflight[p].call.listing.marketplace,
                                inflight[p].call.listing.id, inflight[p].observed_at)
                       ELSE <<NullNumber, "NULL">>]
    /\ UNCHANGED <<market_price, now, last, probe, instance, crawl>>

\* Lines 1110-1164: the INSERT OR IGNORE of the row built from what the call
\* computed and read, and the commit.
InsertAndCommit(p) ==
    /\ inflight[p].pc = "read"
    /\ rows' = insert_or_ignore(rows,
                   observation_row(inflight[p].call.listing, inflight[p].call.item_name,
                       inflight[p].call.search_city, inflight[p].call.search_phrase,
                       inflight[p].call.availability, inflight[p].observed_at,
                       parse_price(inflight[p].call.listing.price),
                       classify_listing(inflight[p].call.listing.title,
                           inflight[p].call.listing.description,
                           inflight[p].call.item_name),
                       inflight[p].sold))
    /\ inflight' = [inflight EXCEPT ![p] = NoInflight[p]]
    /\ last' = [NoCall EXCEPT !.op = "record_observation"]
    /\ UNCHANGED <<market_price, now, schema_ready, probe, instance, crawl>>

NextRace ==
    \/ Tick
    \/ \E p \in Procs : BeginRecord(p) \/ ReadPrior(p) \/ InsertAndCommit(p)

SpecRace == Init /\ [][NextRace]_vars

(***************************************************************************)
(* filmgrab_scraper._iter_category_posts                                   *)
(*                                                                         *)
(* A URL is a pair <<path, query>>; the site serves the page of the path,  *)
(* whatever the query.  A site gives for each page the href of its "next"  *)
(* link, or None.  The post links the loop collects decide nothing about   *)
(* which pages are fetched and are left out.                               *)
(***************************************************************************)

Sites == [1..MaxUrls -> ((1..MaxUrls) \X {"", "?ref=nav"}) \cup {None}]

\* _normalize_url: the absolute URL without its query and fragment.
normalize_url(url) == <<url[1], "">>

\* extract_next_page_url on the page fetched from current_url: the
\* normalised href of the first "next" anchor or link, or None.
extract_next_page_url(site, current_url) ==
    IF site[current_url[1]] = None THEN None ELSE normalize_url(site[current_url[1]])

\* A faulty variant of within_max_pages: one page more is allowed.
within_max_pages_and_one(max_pages, page_count) ==
    max_pages = NullNumber \/ page_count <= max_pages

\* Line 351 negated: max_pages is None (NullNumber here) or not yet reached.
within_max_pages(max_pages, page_count) ==
    max_pages = NullNumber \/ page_count < max_pages

\* Lines 350-351: the loop goes into another iteration.
loop_continues(c) ==
    /\ c.page_url # None
    /\ c.page_url \notin c.visited_pages
    /\ within_max_pages(c.max_pages, c.page_count)

\* Lines 353-356: the page is marked as visited and requested.
requested(c) ==
    [c EXCEPT !.visited_pages = c.visited_pages \cup {c.page_url},
              !.fetched = Append(c.fetched, c.page_url),
              !.page_count = c.page_count + 1]

\* One iteration of the while loop.  _request_text either raises (a
\* timeout, or raise_for_status on an error response), which ends the call,
\* or returns the page; then (lines 359-364) the loop ends when there is no
\* next page or it has been visited, and goes on with it otherwise.
FetchPage ==
    /\ crawl.pc = "loop"
    /\ loop_continues(crawl)
    /\ \E returned \in BOOLEAN :
           crawl' =
               IF ~returned THEN [requested(crawl) EXCEPT !.pc = "raised"]
               ELSE IF \/ extract_next_page_url(crawl.site, crawl.page_url) = None
                       \/ extract_next_page_url(crawl.site, crawl.page_url)
                              \in requested(crawl).visited_pages
               THEN [requested(crawl) EXCEPT !.pc = "done"]
               ELSE [requested(crawl) EXCEPT
                        !.page_url = extract_next_page_url(crawl.site, crawl.page_url)]
    /\ UNCHANGED <<rows, market_price, now, schema_ready, last, probe, instance, inflight>>

\* The while condition fails or max_pages is reached: line 366.
ReturnPosts ==
    /\ crawl.pc = "loop"
    /\ ~loop_continues(crawl)
    /\ crawl' = [crawl EXCEPT !.pc = "done"]
    /\ UNCHANGED <<rows, market_price, now, schema_ready, last, probe, instance, inflight>>

\* Lines 345-348: the locals at the first test of the while condition.  The
\* category URL is used as the caller gave it, with or without a query.
InitCrawl ==
    /\ rows = <<>>
    /\ market_price = {}
    /\ now = 0
    /\ schema_ready = FALSE
    /\ last = NoCall
    /\ probe = NoProbe
    /\ instance = 1
    /\ inflight = NoInflight
    /\ crawl \in {[pc |-> "loop", site |-> site, max_pages |-> max_pages,
                    page_url |-> category_url, visited_pages |-> {}, fetched |-> <<>>,
                    page_count |-> 0] :
                      site \in Sites, max_pages \in {NullNumber} \cup 0..MaxPages,
                      category_url \in {<<1, "">>, <<1, "?ref=nav">>}}

NextCrawl == FetchPage \/ ReturnPosts

\* The loop is sequential code: an iteration that can run does run.
SpecCrawl == InitCrawl /\ [][NextCrawl]_vars /\ WF_vars(NextCrawl)

\* Store instances that follow one another on such a database.
NextReopen == Tick \/ RecordReclass \/ ReclassifyUnknownRows \/ GetSnapshot \/ NewInstance

SpecReopen == InitReclass /\ [][NextReopen]_vars

\* One _classify_listing call on each of the probe inputs.
InitClassify ==
    /\ rows = <<>>
    /\ market_price = {}
    /\ now = 0
    /\ schema_ready = FALSE
    /\ last = NoCall
    /\ probe \in ProbeInputs
    /\ instance = 1
    /\ inflight = NoInflight
    /\ crawl = NoCrawl

NextClassify == Classify

\* One _classify_listing call on each text of the model families.
InitExtract ==
    /\ rows = <<>>
    /\ market_price = {}
    /\ now = 0
    /\ schema_ready = FALSE
    /\ last = NoCall
    /\ probe \in ExtractInputs
    /\ instance = 1
    /\ inflight = NoInflight
    /\ crawl = NoCrawl

SpecExtract == InitExtract /\ [][NextClassify]_vars

SpecClassify == InitClassify /\ [][NextClassify]_vars

(***************************************************************************)
(* Sold-time estimates (checked under SpecSold)                            *)
(***************************************************************************)

RowIds == 1..Len(rows)

SameListing(i, j) ==
    /\ rows[i].marketplace = rows[j].marketplace
    /\ rows[i].listing_id = rows[j].listing_id

\* The first stored 'out' row of the listing of row i.
FirstOutRow(i) ==
    CHOOSE f \in RowIds :
        /\ SameListing(f, i) /\ rows[f].availability = "out"
        /\ \A j \in RowIds :
               SameListing(j, i) /\ rows[j].availability = "out" => f <= j

\* The non-'out' rows of the listing of row i stored before it.
ActiveBefore(i) ==
    {j \in 1..(i - 1) : SameListing(j, i) /\ rows[j].availability # "out"}

\* C1: every stored 'out' row carries the sold_estimated_at and the
\* sold_time_method of its listing's first stored 'out' row, also when
\* non-'out' observations were recorded in between.
C1_SoldEstimateIsStable ==
    \A i \in RowIds :
        rows[i].availability = "out" =>
            /\ rows[i].sold_estimated_at = rows[FirstOutRow(i)].sold_estimated_at
            /\ rows[i].sold_time_method = rows[FirstOutRow(i)].sold_time_method

\* A listing seen 'out', later seen active, later seen 'out' again.
C1_Witness ==
    \E i, j, k \in RowIds :
        /\ i < j /\ j < k
        /\ SameListing(i, j) /\ SameListing(j, k)
        /\ rows[i].availability = "out"
        /\ rows[j].availability # "out"
        /\ rows[k].availability = "out"
        /\ rows[i].observed_at < rows[j].observed_at
        /\ rows[j].observed_at < rows[k].observed_at

\* C8: the first 'out' row of a listing that has stored non-'out' rows, the
\* most recent of them observed at T0, and is itself observed at T1, gets
\* sold_estimated_at = T0 + (T1 - T0)/2 and the midpoint method.
C8_MidpointOfLastActiveAndFirstSold ==
    \A i \in RowIds :
        (rows[i].availability = "out" /\ FirstOutRow(i) = i /\ ActiveBefore(i) # {}) =>
            \E j \in ActiveBefore(i) :
                /\ \A k \in ActiveBefore(i) : rows[k].observed_at <= rows[j].observed_at
                /\ 2 * rows[i].sold_estimated_at = rows[j].observed_at + rows[i].observed_at
                /\ rows[i].sold_time_method = "midpoint_last_active_and_first_sold"

\* A first 'out' row that follows two active observations made at different
\* times, the later of them before the 'out' observation.
C8_Witness ==
    \E i \in RowIds :
        /\ rows[i].availability = "out" /\ FirstOutRow(i) = i
        /\ \E j, k \in ActiveBefore(i) :
               /\ rows[j].observed_at < rows[k].observed_at
               /\ rows[k].observed_at < rows[i].observed_at

\* C9: an 'out' row of a listing with no earlier stored row in its
\* marketplace gets its own observed_at as sold_estimated_at and the method
\* first_seen_out_of_stock.
C9_FirstSeenOutOfStock ==
    \A i \in RowIds :
        (rows[i].availability = "out" /\ \A j \in 1..(i - 1) : ~SameListing(j, i)) =>
            /\ rows[i].sold_estimated_at = rows[i].observed_at
            /\ rows[i].sold_time_method = "first_seen_out_of_stock"

\* Such a row, stored after an active observation of the same listing id on
\* another marketplace and after the clock has moved.
C9_Witness ==
    \E i \in RowIds :
        /\ rows[i].availability = "out"
        /\ rows[i].observed_at > 0
        /\ \A j \in 1..(i - 1) : ~SameListing(j, i)
        /\ \E j \in 1..(i - 1) :
               /\ rows[j].listing_id = rows[i].listing_id
               /\ rows[j].availability # "out"

(***************************************************************************)
(* Price aggregation (checked under SpecPrice and SpecModel)               *)
(*                                                                         *)
(* These formulas speak about the state right after a refresh_market_price *)
(* call: `last` holds its arguments, what it returned and the rows the     *)
(* price query aggregated, and the table is the one the call read.         *)
(***************************************************************************)

Refreshed == last.op = "refresh_market_price"

\* Row i is one the call's queries read FROM: its marketplace and city.
InScope(i) ==
    /\ rows[i].marketplace = last.key[2]
    /\ rows[i].search_city = last.key[3]

\* The in-scope rows of the listing of row i.
ListingInScope(i) ==
    {j \in RowIds : InScope(j) /\ rows[j].listing_id = rows[i].listing_id}

\* The most recent in-scope observations of the listing of row i (several
\* when observations of different availability share a timestamp).
CurrentState(i) ==
    {j \in ListingInScope(i) :
        \A k \in ListingInScope(i) : rows[k].observed_at <= rows[j].observed_at}

\* The time of the call: the updated_at it stored under its key.
RefreshedAt ==
    (CHOOSE r \in market_price :
        <<r.item_name, r.marketplace, r.search_city, r.window_days>> = last.key).updated_at

\* Row i passes the filters of the price query for the call's arguments.
Qualifies(i) ==
    /\ InScope(i)
    /\ rows[i].availability = "out"
    /\ rows[i].price_value # NullNumber
    /\ rows[i].listing_type = "camera_body"
    /\ rows[i].detected_model = last.key[1]
    /\ (IF rows[i].sold_estimated_at # NullNumber
        THEN rows[i].sold_estimated_at ELSE rows[i].observed_at)
           >= RefreshedAt - last.key[4] * Day

\* C2: a listing whose most recent observation in the marketplace and city
\* is not 'out' contributes no row to sample_size or the mean, although an
\* 'out' row of it lies inside the window.
C2_ReappearedListingsAreExcluded ==
    Refreshed =>
        /\ \A i \in RowIds :
               (InScope(i) /\ \A j \in CurrentState(i) : rows[j].availability # "out") =>
                   \A j \in last.price_rows : rows[j].listing_id # rows[i].listing_id
        /\ last.summary.sample_size = Cardinality(last.price_rows)
        /\ last.summary.sample_size <=
               Cardinality({rows[i].listing_id : i \in
                   {j \in RowIds : InScope(j)
                       /\ \E k \in CurrentState(j) : rows[k].availability = "out"}})
        /\ last.summary.msrp_estimate =
               average(sum_prices(rows, last.price_rows), Cardinality(last.price_rows))

\* A refresh that read a listing with a qualifying 'out' row and a later
\* observation that is not 'out'.
C2_Witness ==
    /\ Refreshed
    /\ \E i, j \in RowIds :
           /\ Qualifies(i)
           /\ j \in CurrentState(i)
           /\ rows[j].availability # "out"
           /\ rows[i].observed_at < rows[j].observed_at
           /\ \A k \in last.price_rows : rows[k].listing_id # rows[i].listing_id

\* C3 as stated: a listing is counted at most once, and the row counted is
\* the listing's most recent 'out' observation.
C3_CountedRowIsLatestOut ==
    Refreshed =>
        \A i \in last.price_rows :
            /\ \A j \in last.price_rows : rows[j].listing_id = rows[i].listing_id => j = i
            /\ \A j \in ListingInScope(i) :
                   rows[j].availability = "out" => rows[j].observed_at <= rows[i].observed_at

\* C3 as amended: a listing is counted at most once, and the row counted is
\* the most recent of the listing's 'out' observations that pass the filters
\* of the price query (inside the window, with a price, classified
\* camera_body and detected as the item).
C3_CountedRowIsLatestQualifyingOut ==
    Refreshed =>
        \A i \in last.price_rows :
            /\ Qualifies(i)
            /\ \A j \in last.price_rows : rows[j].listing_id = rows[i].listing_id => j = i
            /\ \A j \in ListingInScope(i) :
                   Qualifies(j) => rows[j].observed_at <= rows[i].observed_at

\* A refresh that counted a listing with an earlier qualifying 'out' row.
C3_Witness ==
    /\ Refreshed
    /\ \E i \in last.price_rows :
           \E j \in ListingInScope(i) :
               Qualifies(j) /\ rows[j].observed_at < rows[i].observed_at

CurrenciesOf(S) == {rows[i].currency : i \in S} \ {None}

CurrencyCount(S, c) == Cardinality({i \in S : rows[i].currency = c})

\* The most frequent currency of the rows S, the least in text order among
\* equally frequent ones, None when no row of S has a currency.
MostFrequentCurrency(S) ==
    IF CurrenciesOf(S) = {} THEN None
    ELSE CHOOSE c \in CurrenciesOf(S) :
            \A d \in CurrenciesOf(S) \ {c} :
                \/ CurrencyCount(S, c) > CurrencyCount(S, d)
                \/ CurrencyCount(S, c) = CurrencyCount(S, d) /\ text_less(c, d)

\* C7: the returned currency is the most frequent non-null currency among
\* exactly the rows counted in sample_size, ties going to the least currency
\* string; it is null only when none of those rows has a currency.
C7_CurrencyOfCountedRows ==
    Refreshed => last.summary.currency = MostFrequentCurrency(last.price_rows)

\* C10: a row is counted only if it is 'out', detected as the item and a
\* camera_body, whatever search it was recorded under; and an 'out' row that
\* qualifies, of a listing whose current state is 'out', has its listing
\* counted under the key of its detected model.
C10_CountsByDetectedModel ==
    Refreshed =>
        /\ \A i \in last.price_rows :
               /\ rows[i].availability = "out"
               /\ rows[i].detected_model = last.key[1]
               /\ rows[i].listing_type = "camera_body"
        /\ \A i \in RowIds :
               (Qualifies(i) /\ \A j \in CurrentState(i) : rows[j].availability = "out") =>
                   \E j \in last.price_rows : rows[j].listing_id = rows[i].listing_id

\* A refresh that counted a row recorded during a search for another item,
\* on a table that also holds a priced 'out' camera body of another model.
C10_Witness ==
    /\ Refreshed
    /\ \E i \in last.price_rows : rows[i].search_phrase # search_phrase_of(last.key[1])
    /\ \E i \in RowIds :
           /\ InScope(i)
           /\ rows[i].availability = "out"
           /\ rows[i].price_value # NullNumber
           /\ rows[i].listing_type = "camera_body"
           /\ rows[i].detected_model \notin {last.key[1], UNKNOWN}
           /\ i \notin last.price_rows

(***************************************************************************)
(* Reclassification (checked under SpecReclass)                            *)
(***************************************************************************)

SecondPass == last.op = "reclassify_unknown_rows" /\ last.repeated

\* C4 as stated: the second of two consecutive reclassify_unknown_rows
\* calls returns 0, whatever rows the store holds.
C4_SecondPassReturnsZero == SecondPass => last.updated = 0

\* C4 as amended: the second of two consecutive reclassify_unknown_rows
\* calls returns the number of rows whose detected_model is 'unknown', every
\* one of which it selects and writes again; it returns 0 exactly when no
\* such row is stored.
C4_SecondPassCountsUnknownRows ==
    SecondPass =>
        last.updated = Cardinality({i \in RowIds : rows[i].detected_model = UNKNOWN})

\* A second pass on a store that holds a row no model is detected in, next
\* to a row the passes have classified.
C4_Witness ==
    /\ SecondPass
    /\ last.updated >= 1
    /\ \E i \in RowIds : rows[i].detected_model # UNKNOWN

\* C5: a reclassify_unknown_rows pass that directly follows another leaves
\* item_name, detected_model, listing_type, is_target_exact, confidence and
\* reason of every row as the first pass left them.
C5_SecondPassChangesNoLabel ==
    [][(last.op = "reclassify_unknown_rows" /\ last'.op = "reclassify_unknown_rows") =>
          /\ Len(rows') = Len(rows)
          /\ \A i \in RowIds :
                /\ rows'[i].item_name = rows[i].item_name
                /\ rows'[i].detected_model = rows[i].detected_model
                /\ rows'[i].listing_type = rows[i].listing_type
                /\ rows'[i].is_target_exact = rows[i].is_target_exact
                /\ rows'[i].classification_confidence = rows[i].classification_confidence
                /\ rows'[i].classification_reason = rows[i].classification_reason]_vars

\* After a second pass: a row that stays 'unknown' and whose item name the
\* first pass rewrote to its normal form, and a row detected as a model.
C5_Witness ==
    /\ SecondPass
    /\ \E i \in RowIds :
           /\ rows[i].detected_model = UNKNOWN
           /\ rows[i].item_name = normalize_item_name(SonyA7CII)
    /\ \E i \in RowIds : rows[i].detected_model = sony_a7c2

(***************************************************************************)
(* Classification (checked under SpecClassify)                             *)
(***************************************************************************)

\* C6: with a model of the registry as the searched item name, a text that
\* names only that model and is classified camera_body is reported with
\* is_target_exact = 1 and confidence 0.98.
C6_ExactTargetForEveryRegistryModel ==
    (/\ probe.result # NoResult
     /\ in_list(probe.item_name, MODEL_PATTERNS)
     /\ extract_models(probe.sig) = <<probe.item_name>>
     /\ probe.result.listing_type = "camera_body") =>
        /\ probe.result.is_target_exact = 1
        /\ probe.result.confidence = 98

\* The cutoff of the call: its time minus window_days.
Cutoff == RefreshedAt - last.key[4] * Day

\* The time row i counts as sold at: its estimate, or else its observation.
SoldAt(i) ==
    IF rows[i].sold_estimated_at # NullNumber THEN rows[i].sold_estimated_at
    ELSE rows[i].observed_at

\* C11: refresh_market_price counts a row only if its price_value is not
\* null and its effective sold time (sold_estimated_at when present,
\* otherwise observed_at) is not earlier than now minus window_days; a row
\* whose effective sold time is older than the cutoff contributes neither to
\* the count and the mean nor to the currency.
C11_CountedRowsArePricedAndInsideWindow ==
    Refreshed =>
        /\ \A i \in last.price_rows :
               rows[i].price_value # NullNumber /\ SoldAt(i) >= Cutoff
        /\ \A i \in RowIds :
               SoldAt(i) < Cutoff => i \notin last.price_rows \cup last.currency_rows
        /\ (\A i \in RowIds : rows[i].price_value = NullNumber \/ SoldAt(i) < Cutoff)
               => last.summary = NoSummary

\* A refresh that counted one listing and left out another whose 'out' row
\* was observed inside the window, with a price, but sold (by its estimate)
\* before the cutoff.
C11_Witness ==
    /\ Refreshed
    /\ last.price_rows # {}
    /\ \E i \in RowIds :
           /\ InScope(i)
           /\ i \in CurrentState(i)
           /\ rows[i].availability = "out"
           /\ rows[i].price_value # NullNumber
           /\ rows[i].observed_at >= Cutoff
           /\ SoldAt(i) < Cutoff
           /\ i \notin last.price_rows

\* The listings that contributed a row to the call's sample.
ContributingListings == {rows[i].listing_id : i \in last.price_rows}

\* The sum of the price_value of the rows of S (in hundredths).
RECURSIVE TotalPrice(_)
TotalPrice(S) ==
    IF S = {} THEN 0
    ELSE LET i == CHOOSE j \in S : TRUE IN rows[i].price_value + TotalPrice(S \ {i})

\* C12: refresh_market_price returns sample_size equal to the number of
\* distinct listings that contribute a row (every listing with a qualifying
\* row whose latest observations are all 'out' does, and no listing without
\* a qualifying row or without a latest 'out' observation does), and a mean
\* equal to the arithmetic mean of the price_value of the contributing rows;
\* the mean is null exactly when sample_size is 0.
C12_SampleSizeAndMean ==
    Refreshed =>
        /\ last.summary.sample_size = Cardinality(ContributingListings)
        /\ \A i \in RowIds :
               (Qualifies(i) /\ \A j \in CurrentState(i) : rows[j].availability = "out")
                   => rows[i].listing_id \in ContributingListings
        /\ \A i \in last.price_rows :
               Qualifies(i) /\ \E j \in CurrentState(i) : rows[j].availability = "out"
        /\ (last.summary.msrp_estimate = None) <=> (last.summary.sample_size = 0)
        /\ last.summary.sample_size > 0 =>
               /\ last.summary.msrp_estimate \in Nat \X (Nat \ {0})
               /\ last.summary.msrp_estimate[1] * last.summary.sample_size
                      = TotalPrice(last.price_rows) * last.summary.msrp_estimate[2]

\* A refresh that counted two listings with different prices, the mean of
\* which is no whole number of hundredths.
C12_Witness ==
    /\ Refreshed
    /\ last.summary.sample_size = 2
    /\ last.summary.msrp_estimate = <<20001, 2>>

\* The market_price rows stored under a key.
SummariesOf(table, key) ==
    {r \in table : <<r.item_name, r.marketplace, r.search_city, r.window_days>> = key}

\* C19: market_price holds at most one row per (item_name, marketplace,
\* search_city, window_days), and every refresh_market_price call leaves
\* under its key the row with the sample_size, msrp_estimate and currency it
\* returns and the time of the call as updated_at, a null estimate and
\* currency included.
C19_RefreshReplacesTheSummary ==
    [][(last'.op = "refresh_market_price" /\ now' = now) =>
          /\ \A r \in market_price' :
                 SummariesOf(market_price', <<r.item_name, r.marketplace, r.search_city,
                                              r.window_days>>) = {r}
          /\ SummariesOf(market_price', last'.key) =
                 {[item_name |-> last'.key[1], marketplace |-> last'.key[2],
                   search_city |-> last'.key[3], window_days |-> last'.key[4],
                   sample_size |-> last'.summary.sample_size,
                   msrp_estimate |-> last'.summary.msrp_estimate,
                   currency |-> last'.summary.currency,
                   updated_at |-> now]}]_vars

\* A refresh that found a summary of one listing under its key and left an
\* empty one there.
C19_Witness ==
    /\ Refreshed
    /\ last.replaced > 0
    /\ last.summary = NoSummary
    /\ \E r \in market_price :
           r.sample_size = 0 /\ r.msrp_estimate = None /\ r.currency = None

\* C13: right after record_observation(listing, ...) returned,
\* get_latest_listing_snapshot(listing.marketplace, listing.id) returns a
\* snapshot with the title, the price text and the description of the
\* listing just recorded, whatever was observed of the listing before (at
\* the same timestamp too).
C13_SnapshotReturnsTheRecordedListing ==
    [][(/\ last.op = "record_observation"
        /\ ~last.raised
        /\ last'.op = "get_latest_listing_snapshot"
        /\ last'.key = <<last.call.listing.marketplace, last.call.listing.id>>) =>
           /\ last'.found
           /\ last'.snapshot = [title |-> last.call.listing.title,
                                price |-> last.call.listing.price,
                                description |-> last.call.listing.description]]_vars

\* Row i of the table rs holds the key record_observation would store for the
\* call c at the time t.
HoldsKeyOf(rs, i, c, t) ==
    /\ rs[i].observed_at = t
    /\ rs[i].marketplace = c.listing.marketplace
    /\ rs[i].listing_id = c.listing.id
    /\ rs[i].availability = c.availability

\* C14: no two rows of listing_observations share (observed_at, marketplace,
\* listing_id, availability), and a record_observation call whose key is
\* already stored raises no error and leaves the table as it was.
C14_DuplicateObservationIsAbsorbed ==
    [][/\ \A i, j \in 1..Len(rows') :
              (/\ rows'[i].observed_at = rows'[j].observed_at
               /\ rows'[i].marketplace = rows'[j].marketplace
               /\ rows'[i].listing_id = rows'[j].listing_id
               /\ rows'[i].availability = rows'[j].availability) => i = j
       /\ (/\ last'.op = "record_observation"
           /\ \E i \in 1..Len(rows) : HoldsKeyOf(rows, i, last'.call, now)) =>
              rows' = rows /\ ~last'.raised]_vars

\* A record_observation call that found its key stored with another title
\* and price, and left that row as it was.
C14_Witness ==
    /\ last.op = "record_observation"
    /\ ~last.raised
    /\ \E i \in RowIds :
           /\ HoldsKeyOf(rows, i, last.call, now)
           /\ rows[i].title # last.call.listing.title
           /\ rows[i].price_text # last.call.listing.price

(***************************************************************************)
(* Model extraction (checked under SpecExtract)                            *)
(***************************************************************************)

Classified == probe.result # NoResult

\* The models matched by the curated patterns and the fallback extractors,
\* in first-seen order, before the generic overrides.
Candidates ==
    append_fallbacks(sony_fallbacks(probe.sig, curated_matches(probe.sig)),
        [i \in 1..Len(probe.sig.rx_tokens) |-> rx_fallback_model(probe.sig.rx_tokens[i])])

IsCandidate(model) == in_list(model, Candidates)

\* The declared specific models of a generic model (none for other models).
DeclaredSpecifics(model) ==
    UNION {GENERIC_MODEL_OVERRIDES[k][2] :
              k \in {j \in 1..Len(GENERIC_MODEL_OVERRIDES) :
                         GENERIC_MODEL_OVERRIDES[j][1] = model}}

\* The model is generic and one of its declared specific models matched too.
Overridden(model) == \E d \in DeclaredSpecifics(model) : IsCandidate(d)

\* No matched model stands next to one of its declared specific models.
NoGenericWithItsSpecific ==
    \A i, j \in 1..Len(probe.matched) :
        probe.matched[j] \notin DeclaredSpecifics(probe.matched[i])

\* C15 as stated: the matched models never hold a generic model together
\* with one of its declared specific models; when both match the text, the
\* specific one is kept, the generic one is removed, and the models that
\* remain keep their first-seen order.
C15_SpecificKeptGenericRemoved ==
    Classified =>
        /\ NoGenericWithItsSpecific
        /\ \A i, j \in 1..Len(Candidates) :
               Candidates[j] \in DeclaredSpecifics(Candidates[i]) =>
                   /\ in_list(Candidates[j], probe.matched)
                   /\ ~in_list(Candidates[i], probe.matched)
        /\ probe.matched =
               SelectSeq(Candidates, LAMBDA model : in_list(model, probe.matched))

\* C15 as amended: the matched models never hold a generic model together
\* with one of its declared specific models; a model that matched the text
\* is removed exactly when one of its own declared specific models matched
\* too (so a specific model that is itself generic goes when a model below
\* it matched), and the models that remain keep their first-seen order.
C15_OverriddenGenericsRemoved ==
    Classified =>
        /\ NoGenericWithItsSpecific
        /\ probe.matched = SelectSeq(Candidates, LAMBDA model : ~Overridden(model))

\* A text that matched sony_a7, sony_a7c and sony_a7c2, of which only
\* sony_a7c2 remains.
C15_Witness ==
    /\ Classified
    /\ IsCandidate(<<"s","o","n","y","_","a","7">>)
    /\ IsCandidate(sony_a7c)
    /\ probe.matched = <<sony_a7c2>>

(***************************************************************************)
(* Classification labels (checked under SpecClassify)                      *)
(***************************************************************************)

\* The target model the probe's item name resolves to, or None.
Target == target_model_from_item_name(probe.item_name)

TargetMatched == Target # None /\ in_list(Target, probe.matched)

\* C16: is_target_exact is 1 if and only if the target model resolves from
\* the item name, the target is among the matched models, no matched model
\* differs from the target, and listing_type is camera_body; in every other
\* case it is 0.
C16_ExactIffFourConditions ==
    Classified =>
        /\ probe.result.is_target_exact \in {0, 1}
        /\ (probe.result.is_target_exact = 1) <=>
               /\ Target # None
               /\ \E i \in 1..Len(probe.matched) : probe.matched[i] = Target
               /\ \A i \in 1..Len(probe.matched) : probe.matched[i] = Target
               /\ probe.result.listing_type = "camera_body"

\* A camera body whose text names the target and another model: not exact.
C16_Witness ==
    /\ Classified
    /\ TargetMatched
    /\ Len(probe.matched) = 2
    /\ probe.result.listing_type = "camera_body"
    /\ probe.result.is_target_exact = 0

\* C18: when the resolved target model is among the matched models but
\* listing_type is not camera_body, the classification is non-exact
\* (is_target_exact = 0) with confidence 0.92, detected_model equal to the
\* target, and a reason that names the listing type detected.
C18_ReferencesTarget ==
    (Classified /\ TargetMatched /\ probe.result.listing_type # "camera_body") =>
        /\ probe.result.is_target_exact = 0
        /\ probe.result.confidence = 92
        /\ probe.result.detected_model = Target
        /\ probe.result.listing_type = detect_listing_type(probe.sig, probe.matched)
        /\ probe.result.reason.kind = "references_target"
        /\ probe.result.reason.listing_type = probe.result.listing_type
        /\ probe.result.reason.target = Target

\* An accessory whose text names the target model and another model.
C18_Witness ==
    /\ Classified
    /\ TargetMatched
    /\ Len(probe.matched) = 2
    /\ probe.result.listing_type = "accessory"
    /\ probe.result.confidence = 92

(***************************************************************************)
(* Canonical item names (checked under SpecReclass)                        *)
(***************************************************************************)

\* The item name row i of the table after a step was classified under: the
\* name stored in the row before the step, or for a row the step inserted the
\* item name record_observation was called with.
SearchedItemName(i) ==
    IF i <= Len(rows) THEN rows[i].item_name ELSE last'.call.item_name

\* C17: once the store has run, every stored row has item_name equal to its
\* detected_model when that is not 'unknown', and otherwise equal to the
\* lowercase-underscore slug of the item name it was searched (or stored)
\* under; this holds after record_observation, the backfill and
\* reclassify_unknown_rows alike.
C17_ItemNameIsCanonical ==
    [][schema_ready' =>
          \A i \in 1..Len(rows') :
              /\ rows'[i].detected_model # UNKNOWN =>
                     rows'[i].item_name = rows'[i].detected_model
              /\ rows'[i].detected_model = UNKNOWN =>
                     rows'[i].item_name = normalize_item_name(SearchedItemName(i))]_vars

\* Rows stored under the item name "Sony A7C II" before the store classified:
\* one of a text without a model, now under the slug sony_a7c_ii, and one of a
\* Sony A7C II body, now under sony_a7c2.
C17_Witness ==
    /\ schema_ready
    /\ \E i, j \in RowIds :
           /\ rows[i].search_phrase = search_phrase_of(SonyA7CII)
           /\ rows[i].detected_model = UNKNOWN
           /\ rows[i].item_name = <<"s","o","n","y","_","a","7","c","_","i","i">>
           /\ rows[j].search_phrase = search_phrase_of(SonyA7CII)
           /\ rows[j].detected_model = sony_a7c2
           /\ rows[j].item_name = sony_a7c2

(***************************************************************************)
(* Price texts (checked under SpecSnapshot)                                *)
(***************************************************************************)

\* The price text is missing or empty, is the text for an unspecified
\* price, or holds no digit.
NoParsableNumber(price_text) ==
    \/ price_text = <<>>
    \/ price_text = UNSPECIFIED
    \/ \A i \in 1..Len(price_text) : price_text[i] \notin Digits

\* C20: record_observation stores the observation for any price text: a call
\* whose key is not stored yet raises no error and writes a row with the
\* price text as given, and with price_value and currency both null when the
\* text is empty, is the unspecified sentinel, or holds no parsable number.
C20_UnparsablePriceIsStoredAsNull ==
    [][(/\ last'.op = "record_observation"
        /\ now' = now
        /\ \A i \in 1..Len(rows) : ~HoldsKeyOf(rows, i, last'.call, now)) =>
           /\ ~last'.raised
           /\ Len(rows') = Len(rows) + 1
           /\ HoldsKeyOf(rows', Len(rows'), last'.call, now)
           /\ rows'[Len(rows')].price_text = last'.call.listing.price
           /\ NoParsableNumber(last'.call.listing.price) =>
                  /\ rows'[Len(rows')].price_value = NullNumber
                  /\ rows'[Len(rows')].currency = None]_vars

\* A record_observation call with the price text "Free" that returned and
\* left a row with that text and no price_value or currency.
C20_Witness ==
    /\ last.op = "record_observation"
    /\ ~last.raised
    /\ last.call.listing.price = Free
    /\ \E i \in RowIds :
           /\ rows[i].listing_id = last.call.listing.id
           /\ rows[i].availability = last.call.availability
           /\ rows[i].price_text = Free
           /\ rows[i].price_value = NullNumber
           /\ rows[i].currency = None

(***************************************************************************)
(* Sold-time fields of stored rows (checked under SpecSold)                *)
(***************************************************************************)

\* C21: a row written by record_observation has a sold_estimated_at and a
\* sold_time_method if and only if its availability is 'out', and the method
\* is first_seen_out_of_stock or midpoint_last_active_and_first_sold.
C21_SoldFieldsIffOut ==
    \A i \in RowIds :
        /\ (rows[i].availability = "out") <=> (rows[i].sold_estimated_at # NullNumber)
        /\ (rows[i].availability = "out") <=> (rows[i].sold_time_method # "NULL")
        /\ rows[i].sold_time_method \in
               {"NULL", "first_seen_out_of_stock", "midpoint_last_active_and_first_sold"}

\* A listing with an active row, which has neither field, and a later 'out'
\* row with a midpoint estimate.
C21_Witness ==
    \E i, j \in RowIds :
        /\ i < j /\ SameListing(i, j)
        /\ rows[i].availability = "in"
        /\ rows[i].sold_estimated_at = NullNumber
        /\ rows[i].sold_time_method = "NULL"
        /\ rows[j].availability = "out"
        /\ rows[j].sold_time_method = "midpoint_last_active_and_first_sold"

\* C24 as stated: the sold_estimated_at of every stored 'out' row is not
\* later than the row's own observed_at and not earlier than the observed_at
\* of the latest non-'out' observation of its listing recorded before that
\* row, also for a listing that went out, reappeared and went out again.
C24_EstimateInGapBeforeTheRow ==
    \A i \in RowIds :
        rows[i].availability = "out" =>
            /\ rows[i].sold_estimated_at <= rows[i].observed_at
            /\ \A j \in ActiveBefore(i) : rows[j].observed_at <= rows[i].sold_estimated_at

\* C24 as amended: the sold_estimated_at of every stored 'out' row is not
\* later than the observed_at of the listing's first 'out' row (so not later
\* than the row's own) and not earlier than the observed_at of the latest
\* non-'out' observation recorded before that first 'out' row.
C24_EstimateInGapBeforeFirstOut ==
    \A i \in RowIds :
        rows[i].availability = "out" =>
            /\ rows[i].sold_estimated_at <= rows[i].observed_at
            /\ rows[i].sold_estimated_at <= rows[FirstOutRow(i)].observed_at
            /\ \A j \in ActiveBefore(FirstOutRow(i)) :
                   rows[j].observed_at <= rows[i].sold_estimated_at

\* A listing seen gone, seen active again later and gone again: the last row
\* carries the estimate of the first, from before the listing was last seen
\* active.
C24_Witness ==
    \E i, j, k \in RowIds :
        /\ i < j /\ j < k
        /\ SameListing(i, j) /\ SameListing(j, k)
        /\ rows[i].availability = "out"
        /\ rows[j].availability # "out"
        /\ rows[k].availability = "out"
        /\ rows[k].sold_estimated_at < rows[j].observed_at
        /\ rows[k].sold_estimated_at = rows[i].sold_estimated_at

(***************************************************************************)
(* Stored rows are kept (checked under SpecReclass)                        *)
(***************************************************************************)

\* The fields of a row that say what was observed.
SnapshotFields(row) ==
    <<row.observed_at, row.marketplace, row.listing_id, row.availability, row.title,
      row.price_text, row.price_value, row.currency, row.description,
      row.sold_estimated_at, row.sold_time_method>>

\* C22: stored rows are never deleted and their snapshot fields never
\* change: record_observation only appends (at most one row), and the
\* backfill and reclassify_unknown_rows add no row and change only item_name
\* and the classification fields.
C22_RowsAreKept ==
    [][/\ Len(rows') >= Len(rows)
       /\ \A i \in 1..Len(rows) : SnapshotFields(rows'[i]) = SnapshotFields(rows[i])
       /\ IF last'.op = "record_observation" /\ now' = now
          THEN Len(rows') <= Len(rows) + 1
          ELSE Len(rows') = Len(rows)
       /\ \A i \in 1..Len(rows) :
              rows'[i] = [rows[i] EXCEPT
                             !.item_name = rows'[i].item_name,
                             !.detected_model = rows'[i].detected_model,
                             !.listing_type = rows'[i].listing_type,
                             !.is_target_exact = rows'[i].is_target_exact,
                             !.classification_confidence = rows'[i].classification_confidence,
                             !.classification_reason = rows'[i].classification_reason]]_vars

\* A table of which a row written before the classification columns existed
\* got a new item_name and a detected model, next to a row recorded since.
C22_Witness ==
    /\ schema_ready
    /\ \E i, j \in RowIds :
           /\ i < j
           /\ rows[i].search_phrase = search_phrase_of(SonyA7CII)
           /\ rows[i].item_name = sony_a7c2
           /\ rows[i].detected_model = sony_a7c2
           /\ rows[i].listing_id \notin {"l1", "l2"}
           /\ rows[j].listing_id \in {"l1", "l2"}

(***************************************************************************)
(* Target resolution and labels (checked under SpecClassify)               *)
(***************************************************************************)

\* C23: an item name that is exactly a canonical model identifier of the
\* pattern registry resolves to that identifier, never to another model
\* whose identifier is a prefix or a substring of it.
C23_IdentifierResolvesToItself ==
    (Classified /\ in_list(probe.item_name, MODEL_PATTERNS)) =>
        probe.target = probe.item_name

\* C26: listing_type follows a strict precedence over five signals: an
\* accessory keyword gives accessory, even with camera-body phrasing or a
\* matched model; otherwise a matched model with compatibility phrasing and
\* no camera-body phrasing gives accessory; otherwise a lens keyword with no
\* camera-body phrasing gives lens; otherwise a matched model or camera-body
\* phrasing gives camera_body; otherwise other.
C26_ListingTypePrecedence ==
    Classified =>
        /\ probe.result.listing_type \in {"accessory", "lens", "camera_body", "other"}
        /\ probe.sig.accessory => probe.result.listing_type = "accessory"
        /\ (~probe.sig.accessory /\ Len(probe.matched) > 0
               /\ probe.sig.compatibility /\ ~probe.sig.camera) =>
                  probe.result.listing_type = "accessory"
        /\ (~probe.sig.accessory /\ ~probe.sig.camera /\ probe.sig.lens
               /\ ~(Len(probe.matched) > 0 /\ probe.sig.compatibility)) =>
                  probe.result.listing_type = "lens"
        /\ (~probe.sig.accessory /\ probe.sig.camera) =>
               probe.result.listing_type = "camera_body"
        /\ (~probe.sig.accessory /\ ~probe.sig.camera /\ ~probe.sig.lens
               /\ ~probe.sig.compatibility /\ Len(probe.matched) > 0) =>
                  probe.result.listing_type = "camera_body"
        /\ (~probe.sig.accessory /\ ~probe.sig.camera /\ ~probe.sig.lens
               /\ Len(probe.matched) = 0) =>
                  probe.result.listing_type = "other"

\* A text with an accessory keyword, camera-body phrasing, a lens keyword and
\* a matched model: an accessory.
C26_Witness ==
    /\ Classified
    /\ probe.sig.accessory /\ probe.sig.camera /\ probe.sig.lens
    /\ Len(probe.matched) > 0
    /\ probe.result.listing_type = "accessory"

\* C27: detected_model is the target model whenever the target is among the
\* matched models, even if other models precede it in the match order;
\* otherwise the first matched model; otherwise 'unknown'.
C27_DetectedModel ==
    Classified =>
        probe.result.detected_model =
            IF probe.target # None
               /\ \E i \in 1..Len(probe.matched) : probe.matched[i] = probe.target
            THEN probe.target
            ELSE IF Len(probe.matched) > 0 THEN probe.matched[1]
            ELSE UNKNOWN

\* A text whose first matched model is not the target, which matched too.
C27_Witness ==
    /\ Classified
    /\ Len(probe.matched) = 2
    /\ probe.matched[2] = probe.target
    /\ probe.result.detected_model = probe.target

\* The listing is an exact target match, or a listing other than a camera
\* body that references the target.
ExactOrReferencesTarget ==
    \/ probe.result.is_target_exact = 1
    \/ TargetMatched /\ probe.result.listing_type # "camera_body"

\* C28: a listing that is neither an exact target match nor a non-body
\* listing that references the target has confidence 0.95 if a model matched
\* and 0.35 if none did; detected_model is 'unknown' exactly when the
\* confidence is 0.35; every confidence is 0.98, 0.92, 0.95 or 0.35.
C28_ConfidenceLevels ==
    Classified =>
        /\ probe.result.confidence \in {98, 92, 95, 35}
        /\ ~ExactOrReferencesTarget =>
               probe.result.confidence = IF Len(probe.matched) > 0 THEN 95 ELSE 35
        /\ (probe.result.detected_model = UNKNOWN) <=> (probe.result.confidence = 35)

\* A text without a model, and with camera-body phrasing: confidence 0.35.
C28_Witness ==
    /\ Classified
    /\ Len(probe.matched) = 0
    /\ probe.sig.camera
    /\ probe.result.detected_model = UNKNOWN
    /\ probe.result.confidence = 35

C25_OutRowsShareOneEstimate ==
    \A i, j \in 1..Len(rows) :
        (/\ rows[i].marketplace = rows[j].marketplace
         /\ rows[i].listing_id = rows[j].listing_id
         /\ rows[i].availability = "out"
         /\ rows[j].availability = "out") =>
            /\ rows[i].sold_estimated_at = rows[j].sold_estimated_at
            /\ rows[i].sold_time_method = rows[j].sold_time_method

\* C30: category pagination fetches each page URL at most once, fetches at
\* most max_pages pages when max_pages is set, and terminates on every
\* finite set of pages, also when the next-page links form a cycle or point
\* back to the current page.
C30_PaginationTerminates ==
    /\ [](/\ \A i, j \in 1..Len(crawl.fetched) :
                 crawl.fetched[i] = crawl.fetched[j] => i = j
          /\ crawl.max_pages # NullNumber => Len(crawl.fetched) <= crawl.max_pages)
    /\ <>(crawl.pc \in {"done", "raised"})

\* A crawl without max_pages has returned after it fetched every page of a
\* site whose last page links back to an earlier one.
C30_Witness ==
    /\ crawl.pc = "done"
    /\ crawl.max_pages = NullNumber
    /\ Len(crawl.fetched) = MaxUrls
    /\ extract_next_page_url(crawl.site, crawl.fetched[Len(crawl.fetched)])
           \in crawl.visited_pages

=============================================================================
